---- MODULE Spec2Model ----
(***************************************************************************)
(* x402 v2 seller side on Conflux eSpace: the payment gate                 *)
(* (X402Middleware, PHP), the facilitator (x402-facilitator.cjs) and the   *)
(* chain they settle on.                                                   *)
(*                                                                         *)
(* A gate request decodes the PAYMENT-SIGNATURE header, calls the          *)
(* facilitator's verify endpoint, then its settle endpoint, and hands      *)
(* control to the protected resource.  A facilitator handler runs until    *)
(* its next await (RPC balance read, static call, broadcast, receipt), so  *)
(* each action below is one such run.  The token contracts and the JSON-RPC *)
(* node are the environment: an EIP-3009 token per configured asset.        *)
(***************************************************************************)
EXTENDS Integers, Sequences, FiniteSets, TLC

VARIABLES
    now,        \* unix time, read by Date.now() and by the chain (block time)
    balance,    \* token -> account -> token balance (the chain's balanceOf)
    used,       \* EIP-3009 authorization state: <<token, from, nonce>> consumed
    txs,        \* settle call -> the transaction it broadcast
    fcall,      \* facilitator request handlers, one per HTTP request
    gate,       \* gate requests (one PHP request each)
    escrowAdapter, \* CONFIG.escrowAdapter, "" when X402_ADAPTER_ADDRESS is unset
    x402_api_payments, \* the rows of the payment log table, in insertion order
    rateLimitFile,  \* ai-demo-proxy.php: the timestamps in one IP's rate limit file
    proxy,      \* ai-demo-proxy.php: the requests of that IP, one PHP process each
    agent,      \* x402-ai-agent-demo.cjs: the runs of the CLI agent, one process each
    server,     \* the facilitator process: where start() stands, the address it listens on
    client,     \* the decoded PAYMENT-REQUIRED array and what each client flow made of it
    walletService,  \* WalletService of the browser: the announced providers, the last lookup
    storageService, \* StorageService: the session items of localStorage, the calls made
    appKitService   \* AppKitService: its fields, its initialization promises, its callers

vars == <<now, balance, used, txs, fcall, gate, escrowAdapter, x402_api_payments,
          rateLimitFile, proxy, agent, server, client, walletService,
          storageService, appKitService>>

----------------------------------------------------------------------------
\* Bounds of the model

\* the clock runs from 1 to MaxTime
MaxTime == 2

\* X402_API_PRICE, in the asset's smallest unit (scaled down)
Price == 2

\* the requests one IP sends to the demo proxy, and the PHP processes that
\* serve them at the same time
NumProxyRequests == 6
MaxWorkers == 2

\* the times the CLI agent is run
NumAgentRuns == 3

----------------------------------------------------------------------------
\* Addresses are hex strings: an account and the spelling of its hex digits

Addr(i, c) == [id |-> i, cs |-> c]

NoAddr == Addr("", "lower")

\* String.prototype.toLowerCase on an address string
toLowerCase(a) == [a EXCEPT !.cs = "lower"]

USDT0 == Addr("usdt0", "lower")
CNHT0 == Addr("cnht0", "lower")
Treasury == Addr("treasury", "mixed")
Adapter == Addr("adapter", "mixed")

\* the relayer wallet's address (ethers checksums it)
relayerAddress == Addr("relayer", "mixed")

\* CONFIG.chainId, CONFIG.network
CONFIG_chainId == 1030
CONFIG_network == "eip155:1030"

\* CONFIG.assets: keyed by the lower-case address
CONFIG_assets ==
    (USDT0 :> [symbol |-> "USDT0", eip3009 |-> TRUE,
               eip712Name |-> "USDT0", eip712Version |-> "1"])
    @@ (CNHT0 :> [symbol |-> "CNHT0", eip3009 |-> TRUE,
                  eip712Name |-> "CNHT0", eip712Version |-> "1"])

NoAsset == [symbol |-> "", eip3009 |-> FALSE, eip712Name |-> "", eip712Version |-> ""]

\* AssetKey without the toLowerCase call
AssetKey_AsGiven(asset) == asset

\* requirements.asset.toLowerCase(): the key the asset is looked up by
AssetKey(asset) == toLowerCase(asset)

\* CONFIG.assets[assetAddr], NoAsset standing for undefined
AssetInfo(assetAddr) ==
    IF assetAddr \in DOMAIN CONFIG_assets THEN CONFIG_assets[assetAddr] ELSE NoAsset

Tokens == {"usdt0", "cnht0"}
Accounts == {"buyer", "attacker", "treasury", "adapter"}
Times == 1..MaxTime

----------------------------------------------------------------------------
\* EIP-712: TransferWithAuthorization(from, to, value, validAfter, validBefore, nonce)

\* the typed-data digest; addresses are hashed as 20 bytes, whatever their spelling
Digest(domain, message) ==
    <<domain.name, domain.version, domain.chainId, domain.verifyingContract.id,
      message.from.id, message.to.id, message.value, message.validAfter,
      message.validBefore, message.nonce>>

NoDigest == <<"", "", 0, "", "", "", 0, 0, 0, "">>

\* a 65-byte signature made with `signer`'s key over `digest`; wellFormed is
\* FALSE for hex that is no signature
Sig(signer, digest) == [wellFormed |-> TRUE, signer |-> signer, digest |-> digest]
MalformedSig == [wellFormed |-> FALSE, signer |-> "", digest |-> NoDigest]

\* ethers.verifyTypedData: the recovered signer; a signature over another digest
\* recovers to an address nobody holds
RecoveredOther == Addr("unowned", "mixed")
verifyTypedData(domain, message, signature) ==
    IF signature.digest = Digest(domain, message)
    THEN Addr(signature.signer, "mixed")
    ELSE RecoveredOther

\* the domain the facilitator checks against (and the token contract uses)
AssetDomain(asset, verifyingContract) ==
    [name |-> asset.eip712Name, version |-> asset.eip712Version,
     chainId |-> CONFIG_chainId, verifyingContract |-> verifyingContract]

----------------------------------------------------------------------------
\* Wire data

\* Authorization, PaymentPayload and PaymentRequirements as JSON objects;
\* "" stands for an absent string field
Authorization(from, to, value, validAfter, validBefore, nonce) ==
    [from |-> from, to |-> to, value |-> value, validAfter |-> validAfter,
     validBefore |-> validBefore, nonce |-> nonce]

PaymentPayload(x402Version, scheme, network, signature, authorization) ==
    [x402Version |-> x402Version, scheme |-> scheme, network |-> network,
     payload |-> [signature |-> signature, authorization |-> authorization]]

Extra(settlementMode, assetTransferMethod, name, version, orderId) ==
    [settlementMode |-> settlementMode, assetTransferMethod |-> assetTransferMethod,
     name |-> name, version |-> version, orderId |-> orderId]

PaymentRequirements(amount, asset, payTo, extra) ==
    [scheme |-> "exact", network |-> "eip155:1030", amount |-> amount,
     asset |-> asset, payTo |-> payTo, extra |-> extra]

NoAuthorization == Authorization(NoAddr, NoAddr, 0, 0, 0, "")
NoPayload == PaymentPayload(0, "", "", MalformedSig, NoAuthorization)
NoRequirements == PaymentRequirements(0, NoAddr, NoAddr, Extra("", "", "", "", ""))

\* what a token holder signs: the message of an authorization under the
\* domain of the token at verifyingContract, with the holder's own key
SignedBy(signer, tokenName, verifyingContract, authorization) ==
    Sig(signer, Digest([name |-> tokenName, version |-> "1", chainId |-> CONFIG_chainId,
                        verifyingContract |-> verifyingContract], authorization))

\* a facilitator HTTP answer: sendJson(res, status, data) with data's keys;
\* status 0 stands for no answer
Answer(status, valid, reason, success, error, transaction, payer) ==
    [status |-> status, valid |-> valid, reason |-> reason, success |-> success,
     error |-> error, transaction |-> transaction, payer |-> payer]

NoAnswer == Answer(0, FALSE, "", FALSE, "", "", NoAddr)

\* sendJson(res, 401, { error: 'Invalid or missing API key' })
Unauthorized == Answer(401, FALSE, "", FALSE, "Invalid or missing API key", "", NoAddr)

\* sendJson(res, status, { valid, reason })
VerifyAnswer(status, valid, reason) == Answer(status, valid, reason, FALSE, "", "", NoAddr)

\* SettleError sent without the 500 status
SettleError_Status200(error) == Answer(200, FALSE, "", FALSE, error, "", NoAddr)

\* sendJson(res, 500, { success: false, error })
SettleError(error) == Answer(500, FALSE, "", FALSE, error, "", NoAddr)

----------------------------------------------------------------------------
\* Facilitator: the request body

\* the limit of parseBody
MaxBodyLength == 1048576

\* a request body: its length in bytes on the wire, the length of the string
\* the chunks decode to (UTF-16 units: one for a character of up to three
\* bytes), and what JSON.parse makes of it: "object" (an object with payload
\* and requirements), "null", "scalar" (any other value: a number, a string,
\* an array, an object without payload) or "invalid" (JSON.parse throws)
Body(chars, bytes, json) == [chars |-> chars, bytes |-> bytes, json |-> json]

\* parseBody: whether the promise resolves; it rejects once the string is
\* longer than the limit, and at the end when JSON.parse throws
parseBody(body) ==
    /\ ~(body.chars > MaxBodyLength)
    /\ body.json # "invalid"

\* error.message of reading a property of undefined
LibTypeError == "Cannot read properties of undefined"

----------------------------------------------------------------------------
\* Facilitator: the verify checks

\* error.message of the error ethers raises for a signature it cannot decode
LibSignatureError == "ethers: INVALID_ARGUMENT"

\* error.message of a failed JSON-RPC call
LibRpcError == "ethers: rpc call failed"

\* SignerMismatch comparing the recovered signer with itself
SignerMismatch_Self(recoveredSigner, from) ==
    toLowerCase(recoveredSigner) # toLowerCase(recoveredSigner)

\* check 6: recoveredSigner.toLowerCase() !== from.toLowerCase()
SignerMismatch(recoveredSigner, from) ==
    toLowerCase(recoveredSigner) # toLowerCase(from)

\* handleVerifyTransfer_checks with the destination check before the signature check
handleVerifyTransfer_checks_DestinationFirst(payload, requirements) ==
    IF payload.x402Version # 2 THEN "Unsupported x402 version"
    ELSE IF payload.scheme # "exact" THEN "Unsupported scheme"
    ELSE IF payload.network # CONFIG_network THEN "Wrong network: " \o payload.network
    ELSE
      LET assetAddr == AssetKey(requirements.asset)
          asset == AssetInfo(assetAddr)
          a == payload.payload.authorization
          domain == AssetDomain(asset, requirements.asset)
      IN
        IF asset = NoAsset \/ ~asset.eip3009 THEN "Unsupported asset"
        ELSE IF requirements.extra.settlementMode # "transfer"
             THEN "Settlement mode must be transfer"
        ELSE IF toLowerCase(a.to) # toLowerCase(requirements.payTo)
             THEN "Wrong payment destination (expected treasury)"
        ELSE IF ~payload.payload.signature.wellFormed THEN LibSignatureError
        ELSE IF SignerMismatch(verifyTypedData(domain, a, payload.payload.signature), a.from)
             THEN "Invalid signature"
        ELSE ""

\* handleVerifyTransfer_checks without the destination check
handleVerifyTransfer_checks_AnyDestination(payload, requirements) ==
    IF payload.x402Version # 2 THEN "Unsupported x402 version"
    ELSE IF payload.scheme # "exact" THEN "Unsupported scheme"
    ELSE IF payload.network # CONFIG_network THEN "Wrong network: " \o payload.network
    ELSE
      LET assetAddr == AssetKey(requirements.asset)
          asset == AssetInfo(assetAddr)
          a == payload.payload.authorization
          domain == AssetDomain(asset, requirements.asset)
      IN
        IF asset = NoAsset \/ ~asset.eip3009 THEN "Unsupported asset"
        ELSE IF requirements.extra.settlementMode # "transfer"
             THEN "Settlement mode must be transfer"
        ELSE IF ~payload.payload.signature.wellFormed THEN LibSignatureError
        ELSE IF SignerMismatch(verifyTypedData(domain, a, payload.payload.signature), a.from)
             THEN "Invalid signature"
        ELSE ""

\* handleVerifyTransfer_checks that recovers the signer under the domain name
\* and version the requirements give
handleVerifyTransfer_checks_DomainFromExtra(payload, requirements) ==
    IF payload.x402Version # 2 THEN "Unsupported x402 version"
    ELSE IF payload.scheme # "exact" THEN "Unsupported scheme"
    ELSE IF payload.network # CONFIG_network THEN "Wrong network: " \o payload.network
    ELSE
      LET assetAddr == AssetKey(requirements.asset)
          asset == AssetInfo(assetAddr)
          a == payload.payload.authorization
          domain == [name |-> requirements.extra.name,
                     version |-> requirements.extra.version,
                     chainId |-> CONFIG_chainId,
                     verifyingContract |-> requirements.asset]
      IN
        IF asset = NoAsset \/ ~asset.eip3009 THEN "Unsupported asset"
        ELSE IF requirements.extra.settlementMode # "transfer"
             THEN "Settlement mode must be transfer"
        ELSE IF ~payload.payload.signature.wellFormed THEN LibSignatureError
        ELSE IF SignerMismatch(verifyTypedData(domain, a, payload.payload.signature), a.from)
             THEN "Invalid signature"
        ELSE IF toLowerCase(a.to) # toLowerCase(requirements.payTo)
             THEN "Wrong payment destination (expected treasury)"
        ELSE ""

\* handleVerifyTransfer up to its first await: the reason it answers with, or
\* "" when it goes on to read the balance
handleVerifyTransfer_checks(payload, requirements) ==
    IF payload.x402Version # 2 THEN "Unsupported x402 version"
    ELSE IF payload.scheme # "exact" THEN "Unsupported scheme"
    ELSE IF payload.network # CONFIG_network THEN "Wrong network: " \o payload.network
    ELSE
      LET assetAddr == AssetKey(requirements.asset)
          asset == AssetInfo(assetAddr)
          a == payload.payload.authorization
          domain == AssetDomain(asset, requirements.asset)
      IN
        IF asset = NoAsset \/ ~asset.eip3009 THEN "Unsupported asset"
        ELSE IF requirements.extra.settlementMode # "transfer"
             THEN "Settlement mode must be transfer"
        ELSE IF ~payload.payload.signature.wellFormed THEN LibSignatureError
        ELSE IF SignerMismatch(verifyTypedData(domain, a, payload.payload.signature), a.from)
             THEN "Invalid signature"
        ELSE IF toLowerCase(a.to) # toLowerCase(requirements.payTo)
             THEN "Wrong payment destination (expected treasury)"
        ELSE ""

\* handleVerify (escrow) up to its first await
handleVerify_checks(payload, requirements) ==
    IF payload.x402Version # 2 THEN "Unsupported x402 version"
    ELSE IF payload.scheme # "exact" THEN "Unsupported scheme"
    ELSE IF payload.network # CONFIG_network THEN "Wrong network: " \o payload.network
    ELSE
      LET assetAddr == AssetKey(requirements.asset)
          asset == AssetInfo(assetAddr)
          a == payload.payload.authorization
          domain == AssetDomain(asset, requirements.asset)
      IN
        IF asset = NoAsset \/ ~asset.eip3009 THEN "Unsupported asset"
        ELSE IF requirements.extra.assetTransferMethod # "eip3009"
             THEN "Only eip3009 method supported"
        ELSE IF ~payload.payload.signature.wellFormed THEN LibSignatureError
        ELSE IF SignerMismatch(verifyTypedData(domain, a, payload.payload.signature), a.from)
             THEN "Invalid signature"
        ELSE IF toLowerCase(a.to) # toLowerCase(escrowAdapter)
             THEN "Wrong payment destination"
        ELSE ""

\* whether the handler got as far as ethers.verifyTypedData: every answer of
\* the checks before it is one of these
BeforeRecovery(reason) ==
    reason \in {"Unsupported x402 version", "Unsupported scheme",
                "Wrong network: eip155:1", "Wrong network: eip155:1030",
                "Unsupported asset", "Settlement mode must be transfer",
                "Only eip3009 method supported"}

\* OutsideWindow that refuses both ends of the window
OutsideWindow_Exclusive(t, validAfter, validBefore) ==
    t <= validAfter \/ t >= validBefore

\* OutsideWindow without the validBefore test
OutsideWindow_NoExpiry(t, validAfter, validBefore) == t < validAfter

\* check 9 as the code writes it: now < validAfter || now > validBefore
OutsideWindow(t, validAfter, validBefore) == t < validAfter \/ t > validBefore

\* AfterBalance_checks without the amount check
AfterBalance_checks_NoAmount(bal, t, payload, requirements) ==
    LET a == payload.payload.authorization IN
    IF bal < a.value THEN "Insufficient balance"
    ELSE IF OutsideWindow(t, a.validAfter, a.validBefore)
         THEN "Authorization expired or not yet valid"
    ELSE ""

\* the checks after the balance read: balance, time window, amount
AfterBalance_checks(bal, t, payload, requirements) ==
    LET a == payload.payload.authorization IN
    IF bal < a.value THEN "Insufficient balance"
    ELSE IF OutsideWindow(t, a.validAfter, a.validBefore)
         THEN "Authorization expired or not yet valid"
    ELSE IF a.value < requirements.amount THEN "Insufficient amount"
    ELSE ""

----------------------------------------------------------------------------
\* The chain: an EIP-3009 token at each configured asset address, and the
\* escrow adapter, which pulls the buyer's authorization to itself

NoTx == [status |-> "none", to |-> NoAddr, method |-> "", token |-> NoAddr,
         orderId |-> "", authorization |-> NoAuthorization,
         signature |-> MalformedSig, revert |-> ""]

\* the transaction a settle handler signs with the relayer key
Tx(to, method, token, orderId, authorization, signature) ==
    [status |-> "pending", to |-> to, method |-> method, token |-> token,
     orderId |-> orderId, authorization |-> authorization,
     signature |-> signature, revert |-> ""]

\* the arguments of the call a transaction makes: transferWithAuthorization
\* takes from, to, value, validAfter, validBefore, nonce, signature;
\* settlePayment takes token, orderId, buyer, value, validAfter, validBefore,
\* nonce, signature and no recipient (NoAddr here)
Arguments(tx) ==
    IF tx.method = "settlePayment"
    THEN [token |-> tx.token, orderId |-> tx.orderId,
          from |-> tx.authorization.from, to |-> NoAddr,
          value |-> tx.authorization.value,
          validAfter |-> tx.authorization.validAfter,
          validBefore |-> tx.authorization.validBefore,
          nonce |-> tx.authorization.nonce, signature |-> tx.signature]
    ELSE [token |-> NoAddr, orderId |-> "",
          from |-> tx.authorization.from, to |-> tx.authorization.to,
          value |-> tx.authorization.value,
          validAfter |-> tx.authorization.validAfter,
          validBefore |-> tx.authorization.validBefore,
          nonce |-> tx.authorization.nonce, signature |-> tx.signature]

\* the authorization the token contract is asked to honour: the adapter
\* receives the payment itself
TokenMessage(tx) ==
    IF tx.method = "settlePayment"
    THEN [tx.authorization EXCEPT !.to = tx.to]
    ELSE tx.authorization

\* Reverts of a token that does not look at the authorization's nonce
Reverts_NoNonceCheck(tx) ==
    LET m == TokenMessage(tx)
        tok == toLowerCase(tx.token)
        domain == AssetDomain(AssetInfo(tok), tx.token)
    IN  {r \in {"authorization is not yet valid", "authorization is expired",
                "invalid signature", "transfer amount exceeds balance"} :
           \/ r = "authorization is not yet valid" /\ ~(now > m.validAfter)
           \/ r = "authorization is expired" /\ ~(now < m.validBefore)
           \/ r = "invalid signature"
                /\ (~tx.signature.wellFormed
                    \/ verifyTypedData(domain, m, tx.signature).id # m.from.id)
           \/ r = "transfer amount exceeds balance"
                /\ balance[tok.id][m.from.id] < m.value}

\* the requirements of transferWithAuthorization that fail, were the
\* transaction executed in the current state
Reverts(tx) ==
    LET m == TokenMessage(tx)
        tok == toLowerCase(tx.token)
        domain == AssetDomain(AssetInfo(tok), tx.token)
    IN  {r \in {"authorization is not yet valid", "authorization is expired",
                "authorization is used", "invalid signature",
                "transfer amount exceeds balance"} :
           \/ r = "authorization is not yet valid" /\ ~(now > m.validAfter)
           \/ r = "authorization is expired" /\ ~(now < m.validBefore)
           \/ r = "authorization is used" /\ <<tok.id, m.from.id, m.nonce>> \in used
           \/ r = "invalid signature"
                /\ (~tx.signature.wellFormed
                    \/ verifyTypedData(domain, m, tx.signature).id # m.from.id)
           \/ r = "transfer amount exceeds balance"
                /\ balance[tok.id][m.from.id] < m.value}

\* a pending transaction is included in a block
Mine(c) ==
    /\ txs[c].status = "pending"
    /\ LET tx == txs[c]
           m == TokenMessage(tx)
           tok == toLowerCase(tx.token).id
       IN IF Reverts(tx) = {}
          THEN /\ txs' = [txs EXCEPT ![c].status = "success"]
               /\ used' = used \cup {<<tok, m.from.id, m.nonce>>}
               /\ balance' = [balance EXCEPT
                     ![tok] = [acct \in Accounts |->
                        IF acct = m.from.id /\ acct = m.to.id THEN balance[tok][acct]
                        ELSE IF acct = m.from.id THEN balance[tok][acct] - m.value
                        ELSE IF acct = m.to.id THEN balance[tok][acct] + m.value
                        ELSE balance[tok][acct]]]
          ELSE /\ \E r \in Reverts(tx) :
                    txs' = [txs EXCEPT ![c].status = "reverted", ![c].revert = r]
               /\ UNCHANGED <<used, balance>>
    /\ UNCHANGED <<now, fcall, gate, escrowAdapter, x402_api_payments, rateLimitFile, proxy, agent, server, client, walletService, storageService, appKitService>>

\* time passes
Tick ==
    /\ now < MaxTime
    /\ now' = now + 1
    /\ UNCHANGED <<balance, used, txs, fcall, gate, escrowAdapter, x402_api_payments, rateLimitFile, proxy, agent, server, client, walletService, storageService, appKitService>>

----------------------------------------------------------------------------
\* ai-demo-proxy.php: the rate limit of one client IP

\* count($rateData) >= 5, and $t > $now - 60
RateLimit == 5
RateWindow == 60

\* the requests of the IP, in the order of their arrival
ProxyIds == 1..NumProxyRequests

\* a request: where its process stands, the $rateData it holds, the time it
\* passed the limit (0: not yet) and its answer (0: none yet; 1: it went on
\* to the input checks and the facilitator call)
NewProxyRequest == [pc |-> "new", rateData |-> <<>>, admittedAt |-> 0, status |-> 0]

\* array_filter($rateData, fn($t) => $t > $now - 60)
RECURSIVE Recent(_, _)
Recent(rateData, t) ==
    IF rateData = <<>> THEN <<>>
    ELSE IF Head(rateData) > t - RateWindow
         THEN <<Head(rateData)>> \o Recent(Tail(rateData), t)
         ELSE Recent(Tail(rateData), t)

\* the request reads the file (no file: empty), drops the old timestamps and
\* answers 429 at five or more; otherwise it adds its own
ProxyRead(r) ==
    /\ proxy[r].pc = "new"
    /\ \A q \in ProxyIds : q < r => proxy[q].pc # "new"
    /\ Cardinality({q \in ProxyIds : proxy[q].pc = "write"}) < MaxWorkers
    /\ LET rateData == Recent(rateLimitFile, now) IN
       IF Len(rateData) >= RateLimit
       THEN proxy' = [proxy EXCEPT ![r].pc = "done", ![r].status = 429]
       ELSE proxy' = [proxy EXCEPT ![r].pc = "write",
                                   ![r].rateData = Append(rateData, now),
                                   ![r].admittedAt = now]
    /\ UNCHANGED <<now, balance, used, txs, fcall, gate, escrowAdapter,
                   x402_api_payments, rateLimitFile, agent, server, client, walletService, storageService, appKitService>>

\* file_put_contents of what the request holds; the request goes on to the
\* input checks and the facilitator call
ProxyWrite(r) ==
    /\ proxy[r].pc = "write"
    /\ rateLimitFile' = proxy[r].rateData
    /\ proxy' = [proxy EXCEPT ![r].pc = "done", ![r].status = 1]
    /\ UNCHANGED <<now, balance, used, txs, fcall, gate, escrowAdapter, x402_api_payments, agent, server, client, walletService, storageService, appKitService>>

----------------------------------------------------------------------------
\* x402-ai-agent-demo.cjs: the CLI agent, run once per question with the
\* buyer's key; the server it asks is the one API_URL names

AgentRuns == 1..NumAgentRuns

\* the cap set in the agent's environment, in the asset's smallest unit
AGENT_SPEND_CAP == Price

\* the amounts a server asks for in PAYMENT-REQUIRED
AgentAmounts == {Price, 2 * Price}

\* a run: where main() stands, requirements.amount, the value of the
\* authorization it signed (0: none) and how the process ended (0: running,
\* 1: exit(1), 200: answer received)
NewAgentRun == [pc |-> "fetch", amount |-> 0, signed |-> 0, status |-> 0]

\* step 1: the first request; any status but 402, or no PAYMENT-REQUIRED
\* header, ends the process
AgentFetch(a) ==
    /\ agent[a].pc = "fetch"
    /\ \A b \in AgentRuns : b < a => agent[b].pc = "done"
    /\ \/ agent' = [agent EXCEPT ![a].pc = "done", ![a].status = 1]
       \/ \E amount \in AgentAmounts :
             agent' = [agent EXCEPT ![a].pc = "balanceOf", ![a].amount = amount]
    /\ UNCHANGED <<now, balance, used, txs, fcall, gate, escrowAdapter,
                   x402_api_payments, rateLimitFile, proxy, server, client, walletService, storageService, appKitService>>

\* steps 2 and 3: the balance is read; below requirements.amount the process
\* ends, otherwise the authorization for requirements.amount is signed
AgentSign(a) ==
    /\ agent[a].pc = "balanceOf"
    /\ IF balance["usdt0"]["buyer"] < agent[a].amount
       THEN agent' = [agent EXCEPT ![a].pc = "done", ![a].status = 1]
       ELSE agent' = [agent EXCEPT ![a].pc = "pay", ![a].signed = agent[a].amount]
    /\ UNCHANGED <<now, balance, used, txs, fcall, gate, escrowAdapter,
                   x402_api_payments, rateLimitFile, proxy, server, client, walletService, storageService, appKitService>>

\* step 4: the paid request is sent; the server settles the payment and
\* answers 200, or answers anything else and the process ends
AgentPay(a) ==
    /\ agent[a].pc = "pay"
    /\ \/ /\ balance["usdt0"]["buyer"] >= agent[a].signed
          /\ balance' = [balance EXCEPT
                !["usdt0"]["buyer"] = @ - agent[a].signed,
                !["usdt0"]["treasury"] = @ + agent[a].signed]
          /\ agent' = [agent EXCEPT ![a].pc = "done", ![a].status = 200]
       \/ /\ agent' = [agent EXCEPT ![a].pc = "done", ![a].status = 1]
          /\ UNCHANGED balance
    /\ UNCHANGED <<now, used, txs, fcall, gate, escrowAdapter,
                   x402_api_payments, rateLimitFile, proxy, server, client, walletService, storageService, appKitService>>

----------------------------------------------------------------------------
\* The facilitator process: start(), initialize(), server.listen

\* the process before start(): ARENA_SIGNER_PRIVATE_KEY and
\* X402_FACILITATOR_KEY set or not; initialized is what initialize() returned
Starting(privateKey, apiKey) ==
    [pc |-> "start", PRIVATE_KEY |-> privateKey, API_KEY |-> apiKey,
     initialized |-> FALSE, host |-> ""]

\* the process once server.listen('127.0.0.1') has run
Listening ==
    [pc |-> "listening", PRIVATE_KEY |-> TRUE, API_KEY |-> TRUE,
     initialized |-> TRUE, host |-> "127.0.0.1"]

\* initialize() up to provider.getNetwork(): without either key it returns
\* false and start() exits
ServerInitialize ==
    /\ server.pc = "start"
    /\ server' = IF ~server.PRIVATE_KEY \/ ~server.API_KEY
                 THEN [server EXCEPT !.pc = "exited"]
                 ELSE [server EXCEPT !.pc = "getNetwork"]
    /\ UNCHANGED <<now, balance, used, txs, fcall, gate, escrowAdapter,
                   x402_api_payments, rateLimitFile, proxy, agent, client, walletService, storageService, appKitService>>

\* provider.getNetwork() answers and initialize() returns true, or it throws
\* and start() exits
ServerGetNetwork ==
    /\ server.pc = "getNetwork"
    /\ \/ server' = [server EXCEPT !.pc = "getBalance", !.initialized = TRUE]
       \/ server' = [server EXCEPT !.pc = "exited"]
    /\ UNCHANGED <<now, balance, used, txs, fcall, gate, escrowAdapter,
                   x402_api_payments, rateLimitFile, proxy, agent, client, walletService, storageService, appKitService>>

\* ServerListen that binds every interface
ServerListen_AnyInterface ==
    /\ server.pc = "getBalance"
    /\ \/ server' = [server EXCEPT !.pc = "listening", !.host = "0.0.0.0"]
       \/ server' = [server EXCEPT !.pc = "exited"]
    /\ UNCHANGED <<now, balance, used, txs, fcall, gate, escrowAdapter,
                   x402_api_payments, rateLimitFile, proxy, agent, client, walletService, storageService, appKitService>>

\* provider.getBalance(relayerAddress) answers and the server listens on
\* 127.0.0.1, or it throws and start().catch exits
ServerListen ==
    /\ server.pc = "getBalance"
    /\ \/ server' = [server EXCEPT !.pc = "listening", !.host = "127.0.0.1"]
       \/ server' = [server EXCEPT !.pc = "exited"]
    /\ UNCHANGED <<now, balance, used, txs, fcall, gate, escrowAdapter,
                   x402_api_payments, rateLimitFile, proxy, agent, client, walletService, storageService, appKitService>>

\* SIGINT, SIGTERM: server.close, then exit
ServerSignal ==
    /\ server.pc # "exited"
    /\ server' = [server EXCEPT !.pc = "exited"]
    /\ UNCHANGED <<now, balance, used, txs, fcall, gate, escrowAdapter,
                   x402_api_payments, rateLimitFile, proxy, agent, client, walletService, storageService, appKitService>>

\* whether a connection to the address `to` of the machine reaches the
\* server: it listens, on that address or on every address
Accepts(to) ==
    /\ server.pc = "listening"
    /\ server.host \in {to, "0.0.0.0"}

----------------------------------------------------------------------------
\* WalletService: the EIP-6963 providers and the two lookups

\* the most wallets that announce themselves
MaxProviders == 2

\* calls of _doInitialize in one page
MaxInitializations == 2

\* a string is the sequence of its characters
UpperCase == <<"A", "B", "C", "D", "E", "F", "G", "H", "I", "J", "K", "L", "M", "N", "O", "P", "Q", "R", "S", "T", "U", "V", "W", "X", "Y", "Z">>
LowerCase == <<"a", "b", "c", "d", "e", "f", "g", "h", "i", "j", "k", "l", "m", "n", "o", "p", "q", "r", "s", "t", "u", "v", "w", "x", "y", "z">>

\* String.prototype.toLowerCase
lowerCase(str) ==
    [i \in 1..Len(str) |->
        IF \E j \in 1..26 : UpperCase[j] = str[i]
        THEN LowerCase[CHOOSE j \in 1..26 : UpperCase[j] = str[i]]
        ELSE str[i]]

\* String.prototype.includes
includes(str, searchString) ==
    \E i \in 1..(Len(str) - Len(searchString) + 1) :
        SubSeq(str, i, i + Len(searchString) - 1) = searchString

\* includes that tells whether the string starts with the other
includes_AtStart(str, searchString) ==
    /\ Len(searchString) <= Len(str)
    /\ SubSeq(str, 1, Len(searchString)) = searchString

\* an announcement: info.name, info.rdns and the flags of the provider object
Wallet(name, rdns, isFluent, isConflux) ==
    [name |-> name, rdns |-> rdns, isFluent |-> isFluent, isConflux |-> isConflux]

\* wallets that announce themselves: MetaMask, Fluent, a wallet named after
\* Conflux, wallets known by their rdns or by a flag only, MetaMask Flask, and
\* a wallet that is none of these
Wallets ==
    {Wallet(<<"M", "e", "t", "a", "M", "a", "s", "k">>, <<"i", "o", ".", "m", "e", "t", "a", "m", "a", "s", "k">>, FALSE, FALSE),
     Wallet(<<"F", "l", "u", "e", "n", "t">>, <<"c", "o", "m", ".", "f", "l", "u", "e", "n", "t">>, TRUE, FALSE),
     Wallet(<<"C", "o", "n", "f", "l", "u", "x">>, <<"x", ".", "y">>, FALSE, FALSE),
     Wallet(<<"W", "a", "l", "l", "e", "t">>, <<"x", ".", "C", "O", "N", "F", "L", "U", "X">>, FALSE, FALSE),
     Wallet(<<"W", "a", "l", "l", "e", "t">>, <<"x", ".", "y">>, FALSE, TRUE),
     Wallet(<<"F", "l", "a", "s", "k">>, <<"i", "o", ".", "m", "e", "t", "a", "m", "a", "s", "k", ".", "f", "l">>, FALSE, FALSE),
     Wallet(<<"O", "t", "h", "e", "r">>, <<"i", "o", ".", "M", "e", "t", "a", "M", "a", "s", "k">>, FALSE, FALSE)}

Uuids == {i \in 1..MaxProviders : TRUE}

\* no provider: null
NoProvider == [uuid |-> 0, wallet |-> Wallet(<<>>, <<>>, FALSE, FALSE)]

\* the lookup just made: which one, the providers it went through, what it
\* returned
NoLookup == [of |-> "", providers |-> <<>>, returned |-> NoProvider]

\* the connectWalletConnect calls of a page
Flows == {"k1", "k2"}

Addresses == {"0xa1", "0xa2"}

\* the closure of one connectWalletConnect(true) call: its resolved flag,
\* whether its two listeners are on window, its 5 minute timer, where
\* handleConnected stands and the address of the event it handles; and what
\* was observed of it: which of the two events and the timeout came first,
\* the calls of resolve and reject in order, how often its handlers wrote
\* the wallet state and ran cleanup
NewFlow ==
    [pc |-> "idle", resolved |-> FALSE, listening |-> FALSE, timer |-> "none",
     handler |-> "none", detail |-> "",
     first |-> "", calls |-> <<>>, writes |-> 0, cleanups |-> 0]

NewWalletService ==
    [eip6963Providers |-> <<>>, lookup |-> NoLookup,
     currentAccount |-> "", currentWalletType |-> "", provider |-> "",
     flows |-> [f \in Flows |-> NewFlow]]

\* Map.prototype.set: a new key goes to the end, a known key keeps its place
MapSet(map, uuid, wallet) ==
    IF \E i \in 1..Len(map) : map[i].uuid = uuid
    THEN [i \in 1..Len(map) |->
             IF map[i].uuid = uuid THEN [uuid |-> uuid, wallet |-> wallet] ELSE map[i]]
    ELSE Append(map, [uuid |-> uuid, wallet |-> wallet])

\* the eip6963:announceProvider listener
AnnounceProvider(uuid, wallet) ==
    /\ walletService' = [walletService EXCEPT
          !.eip6963Providers = MapSet(@, uuid, wallet), !.lookup = NoLookup]
    /\ UNCHANGED <<now, balance, used, txs, fcall, gate, escrowAdapter,
                   x402_api_payments, rateLimitFile, proxy, agent, server, client, storageService, appKitService>>

\* the test of getFluentProviderEIP6963
IsFluent(w) ==
    \/ includes(lowerCase(w.name), <<"f", "l", "u", "e", "n", "t">>)
    \/ includes(lowerCase(w.rdns), <<"f", "l", "u", "e", "n", "t">>)
    \/ includes(lowerCase(w.rdns), <<"c", "o", "n", "f", "l", "u", "x">>)
    \/ w.isFluent
    \/ w.isConflux

\* IsMetaMask that takes every rdns starting with io.metamask
IsMetaMask_Prefix(w) == includes_AtStart(w.rdns, <<"i", "o", ".", "m", "e", "t", "a", "m", "a", "s", "k">>)

\* the test of getMetaMaskProviderEIP6963
IsMetaMask(w) == w.rdns = <<"i", "o", ".", "m", "e", "t", "a", "m", "a", "s", "k">>

\* the loop of a lookup: the first entry of the map that passes its test, or
\* null
RECURSIVE FirstProvider(_, _)
FirstProvider(map, of) ==
    IF map = <<>> THEN NoProvider
    ELSE IF (IF of = "fluent" THEN IsFluent(Head(map).wallet)
             ELSE IsMetaMask(Head(map).wallet))
         THEN Head(map)
    ELSE FirstProvider(Tail(map), of)

getFluentProviderEIP6963 ==
    /\ walletService' = [walletService EXCEPT !.lookup =
          [of |-> "fluent", providers |-> walletService.eip6963Providers,
           returned |-> FirstProvider(walletService.eip6963Providers, "fluent")]]
    /\ UNCHANGED <<now, balance, used, txs, fcall, gate, escrowAdapter,
                   x402_api_payments, rateLimitFile, proxy, agent, server, client, storageService, appKitService>>

getMetaMaskProviderEIP6963 ==
    /\ walletService' = [walletService EXCEPT !.lookup =
          [of |-> "metamask", providers |-> walletService.eip6963Providers,
           returned |-> FirstProvider(walletService.eip6963Providers, "metamask")]]
    /\ UNCHANGED <<now, balance, used, txs, fcall, gate, escrowAdapter,
                   x402_api_payments, rateLimitFile, proxy, agent, server, client, storageService, appKitService>>

----------------------------------------------------------------------------
\* StorageService: the session token and its expiry in localStorage

SessionTokens == {"t1", "t2"}

\* expiresAt of saveSession: a date, or 0 when the caller gives none
ExpiresAts == {0} \cup Times

\* no call yet
NoCall == [op |-> "", token |-> "", expiresAt |-> 0, at |-> 0, returned |-> "",
           expires |-> 0]

\* localStorage without the two session items ("" and 0: getItem gives null),
\* the session saved last and not cleared by a call of clearSession since,
\* and the call made last: for getSessionToken, the expiry it read, when, and
\* what it returned ("": null)
NewStorageService ==
    [arena_session_token |-> "", arena_session_expires |-> 0,
     saved |-> NoCall, call |-> NoCall]

\* saveSession(token, expiresAt): the token is written, the expiry only when
\* one is given
saveSession(token, expiresAt) ==
    /\ storageService' = [storageService EXCEPT
          !.arena_session_token = token,
          !.arena_session_expires = IF expiresAt # 0 THEN expiresAt ELSE @,
          !.saved = [NoCall EXCEPT !.op = "saveSession", !.token = token,
                                   !.expiresAt = expiresAt, !.at = now],
          !.call = [NoCall EXCEPT !.op = "saveSession", !.token = token,
                                  !.expiresAt = expiresAt, !.at = now]]
    /\ UNCHANGED <<now, balance, used, txs, fcall, gate, escrowAdapter,
                   x402_api_payments, rateLimitFile, proxy, agent, server, client,
                   walletService, appKitService>>

\* expires && new Date(expires) < new Date()
SessionExpired(expires, at) == expires # 0 /\ expires < at

\* getSessionToken(): an expired session is cleared and null returned,
\* otherwise the stored token (or null) is returned
getSessionToken ==
    /\ storageService' = [storageService EXCEPT
          !.arena_session_token =
              IF SessionExpired(storageService.arena_session_expires, now)
              THEN "" ELSE @,
          !.arena_session_expires =
              IF SessionExpired(storageService.arena_session_expires, now)
              THEN 0 ELSE @,
          !.call = [NoCall EXCEPT
              !.op = "getSessionToken", !.at = now,
              !.expires = storageService.arena_session_expires,
              !.returned =
                  IF SessionExpired(storageService.arena_session_expires, now)
                  THEN "" ELSE storageService.arena_session_token]]
    /\ UNCHANGED <<now, balance, used, txs, fcall, gate, escrowAdapter,
                   x402_api_payments, rateLimitFile, proxy, agent, server, client,
                   walletService, appKitService>>

\* clearSession(): both items are removed
clearSession ==
    /\ storageService' = [storageService EXCEPT
          !.arena_session_token = "", !.arena_session_expires = 0,
          !.saved = NoCall,
          !.call = [NoCall EXCEPT !.op = "clearSession", !.at = now]]
    /\ UNCHANGED <<now, balance, used, txs, fcall, gate, escrowAdapter,
                   x402_api_payments, rateLimitFile, proxy, agent, server, client,
                   walletService, appKitService>>

----------------------------------------------------------------------------
\* AppKitService: the modal of WalletConnect, made once

\* the calls of initialize() and of the methods that await it
Callers == {"k1", "k2", "k3"}
Methods == {"initialize", "open", "openNetworks", "getProvider"}

\* a caller that has not called yet; later: the method it called, where it
\* stands (await, returned, thrown), the run of _doInitialize whose promise it
\* awaits (0: a promise already fulfilled) and the modal it obtained (0: none)
NewCaller == [method |-> "", pc |-> "idle", promise |-> 0, modal |-> 0]

\* the constructor; runs: the calls of _doInitialize in order, each with the
\* state of its promise and the modal it created (0: none); a modal is
\* named by the run that created it, initPromise by the run that returned it
NewAppKitService ==
    [modal |-> 0, address |-> "", isInitialized |-> FALSE, initPromise |-> 0,
     lastAddress |-> "", isWaitingForConnection |-> FALSE,
     runs |-> <<>>, callers |-> [k \in Callers |-> NewCaller]]

\* initialize() that does not test initPromise
initialize_IgnoresPending(a) ==
    IF a.isInitialized THEN [starts |-> FALSE, promise |-> 0, modal |-> a.modal]
    ELSE [starts |-> TRUE, promise |-> Len(a.runs) + 1, modal |-> 0]

\* initialize(): the modal when initialized, the pending promise when there
\* is one, otherwise _doInitialize() is called and its promise kept
initialize(a) ==
    IF a.isInitialized THEN [starts |-> FALSE, promise |-> 0, modal |-> a.modal]
    ELSE IF a.initPromise # 0
         THEN [starts |-> FALSE, promise |-> a.initPromise, modal |-> 0]
    ELSE [starts |-> TRUE, promise |-> Len(a.runs) + 1, modal |-> 0]

\* caller k calls a method: each awaits initialize() first; a new run of
\* _doInitialize goes as far as its await of the module import
Call(k, method) ==
    /\ appKitService.callers[k].pc = "idle"
    /\ LET i == initialize(appKitService) IN
       /\ i.starts => Len(appKitService.runs) < MaxInitializations
       /\ appKitService' = [appKitService EXCEPT
             !.initPromise = IF i.starts THEN i.promise ELSE @,
             !.runs = IF i.starts THEN Append(@, [state |-> "pending", modal |-> 0])
                      ELSE @,
             !.callers[k] = [method |-> method, pc |-> "await",
                             promise |-> i.promise, modal |-> i.modal]]
    /\ UNCHANGED <<now, balance, used, txs, fcall, gate, escrowAdapter,
                   x402_api_payments, rateLimitFile, proxy, agent, server, client,
                   walletService, storageService>>

\* how the rest of _doInitialize goes once the import has settled
Outcomes == {"import fails", "createAppKit throws", "subscribe throws", "initialized"}

\* the rest of run r of _doInitialize, in one turn of the event loop: the
\* modal is created and subscribed to and isInitialized set, or the catch
\* clears initPromise and the promise is rejected
doInitialize(r, outcome) ==
    /\ r \in 1..Len(appKitService.runs)
    /\ appKitService.runs[r].state = "pending"
    /\ appKitService' = [appKitService EXCEPT
          !.modal = IF outcome \in {"subscribe throws", "initialized"} THEN r ELSE @,
          !.isInitialized = IF outcome = "initialized" THEN TRUE ELSE @,
          !.initPromise = IF outcome = "initialized" THEN @ ELSE 0,
          !.runs[r] = IF outcome = "initialized"
                      THEN [state |-> "fulfilled", modal |-> r]
                      ELSE [state |-> "rejected",
                            modal |-> IF outcome = "subscribe throws" THEN r ELSE 0]]
    /\ UNCHANGED <<now, balance, used, txs, fcall, gate, escrowAdapter,
                   x402_api_payments, rateLimitFile, proxy, agent, server, client,
                   walletService, storageService>>

\* the promise caller k awaits has settled
PromiseSettled(a, k) ==
    IF a.callers[k].promise = 0 THEN TRUE
    ELSE a.runs[a.callers[k].promise].state # "pending"

\* caller k goes on after its await: initialize() gives the modal the promise
\* was fulfilled with, the other methods read this.modal; open() also starts
\* waiting for a connection; a rejected promise is thrown on
Resume(k) ==
    LET c == appKitService.callers[k]
        rejected == c.promise # 0 /\ appKitService.runs[c.promise].state = "rejected"
    IN
    /\ c.pc = "await"
    /\ PromiseSettled(appKitService, k)
    /\ appKitService' = [appKitService EXCEPT
          !.lastAddress = IF c.method = "open" /\ ~rejected THEN "" ELSE @,
          !.isWaitingForConnection =
              IF c.method = "open" /\ ~rejected THEN TRUE ELSE @,
          !.callers[k] =
              IF rejected THEN [c EXCEPT !.pc = "thrown"]
              ELSE [c EXCEPT !.pc = "returned",
                      !.modal = IF c.method # "initialize" THEN appKitService.modal
                                ELSE IF c.promise = 0 THEN c.modal
                                ELSE appKitService.runs[c.promise].modal]]
    /\ UNCHANGED <<now, balance, used, txs, fcall, gate, escrowAdapter,
                   x402_api_payments, rateLimitFile, proxy, agent, server, client,
                   walletService, storageService>>


----------------------------------------------------------------------------
\* WalletService.connectWalletConnect(true): the promise that waits for the
\* events of AppKit

\* which came first for a pending call whose first is not known yet
Observe(c, what) ==
    IF c.pc = "pending" /\ c.first = "" THEN [c EXCEPT !.first = what] ELSE c

\* cleanup(): both listeners are removed (stopWaitingForConnection is in the
\* actions that run it)
cleanup(c) == [c EXCEPT !.listening = FALSE, !.cleanups = @ + 1]

\* handleConnected as far as its await of the provider
handleConnected(c, address) ==
    IF c.resolved THEN c
    ELSE [cleanup(c) EXCEPT !.resolved = TRUE, !.handler = "getProvider",
                            !.detail = address]

handleDisconnected(c) ==
    IF c.resolved THEN c
    ELSE [cleanup(c) EXCEPT !.resolved = TRUE,
             !.calls = Append(@, [how |-> "reject", with |-> "cancelled"])]

\* the callback of the timer that does not test resolved
onTimeout_IgnoresResolved(c) ==
    [cleanup(c) EXCEPT !.resolved = TRUE, !.timer = "fired",
        !.calls = Append(@, [how |-> "reject", with |-> "timeout"])]

\* the callback of the 5 minute timer
onTimeout(c) ==
    IF c.resolved THEN [c EXCEPT !.timer = "fired"]
    ELSE [cleanup(c) EXCEPT !.resolved = TRUE, !.timer = "fired",
             !.calls = Append(@, [how |-> "reject", with |-> "timeout"])]

\* the promise body of call f, reached once initialize() has succeeded: the
\* listeners are added, open() is called and not awaited (it stands at its
\* await of initialize()), the timer is set
connectWalletConnect(f) ==
    /\ walletService.flows[f].pc = "idle"
    /\ appKitService.isInitialized
    /\ appKitService.callers[f].pc = "idle"
    /\ walletService' = [walletService EXCEPT !.flows[f] =
          [@ EXCEPT !.pc = "pending", !.listening = TRUE, !.timer = "armed"]]
    /\ LET i == initialize(appKitService) IN
       appKitService' = [appKitService EXCEPT !.callers[f] =
          [method |-> "open", pc |-> "await", promise |-> i.promise,
           modal |-> i.modal]]
    /\ UNCHANGED <<now, balance, used, txs, fcall, gate, escrowAdapter,
                   x402_api_payments, rateLimitFile, proxy, agent, server, client,
                   storageService>>

\* window.dispatchEvent from AppKit in state a: every listener on window
\* runs in turn; a handler that runs cleanup stops the waiting
dispatchEvent(type, address, a) ==
    /\ walletService' = [walletService EXCEPT !.flows = [f \in Flows |->
          LET c == Observe(walletService.flows[f], type) IN
          IF ~c.listening THEN c
          ELSE IF type = "connected" THEN handleConnected(c, address)
          ELSE handleDisconnected(c)]]
    /\ appKitService' = [a EXCEPT !.isWaitingForConnection =
          IF \E f \in Flows : /\ walletService.flows[f].listening
                              /\ ~walletService.flows[f].resolved
          THEN FALSE ELSE @]

\* the callback of subscribeAccount: while waiting, a new address is
\* announced as connected, the loss of one as disconnected
AccountChanged(newAddress) ==
    /\ appKitService.isInitialized
    /\ appKitService.isWaitingForConnection
    /\ newAddress # appKitService.lastAddress
    /\ dispatchEvent(IF newAddress # "" THEN "connected" ELSE "disconnected",
                     newAddress,
                     [appKitService EXCEPT !.lastAddress = newAddress,
                                           !.address = newAddress])
    /\ UNCHANGED <<now, balance, used, txs, fcall, gate, escrowAdapter,
                   x402_api_payments, rateLimitFile, proxy, agent, server, client,
                   storageService>>

\* the callback of subscribeState when the modal is closed: while waiting
\* with no address, disconnected is dispatched
ModalClosed ==
    /\ appKitService.isInitialized
    /\ appKitService.isWaitingForConnection
    /\ appKitService.address = ""
    /\ dispatchEvent("disconnected", "", appKitService)
    /\ UNCHANGED <<now, balance, used, txs, fcall, gate, escrowAdapter,
                   x402_api_payments, rateLimitFile, proxy, agent, server, client,
                   storageService>>

\* the 5 minute timer of call f fires
TimeoutFires(f) ==
    /\ walletService.flows[f].timer = "armed"
    /\ walletService' = [walletService EXCEPT !.flows[f] =
          onTimeout(Observe(@, "timeout"))]
    /\ appKitService' = [appKitService EXCEPT !.isWaitingForConnection =
          IF onTimeout(walletService.flows[f]).cleanups
                # walletService.flows[f].cleanups
          THEN FALSE ELSE @]
    /\ UNCHANGED <<now, balance, used, txs, fcall, gate, escrowAdapter,
                   x402_api_payments, rateLimitFile, proxy, agent, server, client,
                   storageService>>

Providers == {"", "provider"}

\* the race of getProvider() and its 10 second timer is over (no provider
\* when it was lost or failed): handleConnected writes the wallet state and
\* resolves
handleConnected_resume(f, provider) ==
    LET c == walletService.flows[f] IN
    /\ c.handler = "getProvider"
    /\ walletService' = [walletService EXCEPT
          !.currentAccount = c.detail,
          !.currentWalletType = "walletconnect",
          !.provider = provider,
          !.flows[f] = [c EXCEPT !.handler = "done", !.writes = @ + 1,
              !.calls = Append(@, [how |-> "resolve", with |-> c.detail])]]
    /\ UNCHANGED <<now, balance, used, txs, fcall, gate, escrowAdapter,
                   x402_api_payments, rateLimitFile, proxy, agent, server, client,
                   storageService, appKitService>>

----------------------------------------------------------------------------
\* Facilitator request handlers

GateIds == {"g1", "g2"}
DirectIds == {"d1"}

\* one handler per HTTP request: the verify and the settle call of each gate
\* request, and the requests of other holders of the API key
FCallIds == (GateIds \X {"verify", "settle"}) \cup (DirectIds \X {"direct"})

\* what demo-ai got for its first request: the status (0 before it, and when
\* fetch threw) and whether PAYMENT-REQUIRED was set
NoFirstRes == [status |-> 0, hasHeader |-> FALSE]

Idle == [pc |-> "idle", ep |-> "", keyOk |-> FALSE, bodyOk |-> FALSE,
         body |-> Body(0, 0, ""),
         payload |-> NoPayload, requirements |-> NoRequirements,
         did |-> <<>>, seenBalance |-> 0, seenNow |-> 0, firstRes |-> NoFirstRes,
         answer |-> NoAnswer]

\* an HTTP request as the server receives it, with a short body: bodyOk tells
\* whether parseBody resolves
Request(ep, keyOk, bodyOk, payload, requirements) ==
    [Idle EXCEPT !.pc = "recv", !.ep = ep, !.keyOk = keyOk, !.bodyOk = bodyOk,
                 !.body = Body(2, 2, IF bodyOk THEN "object" ELSE "invalid"),
                 !.payload = payload, !.requirements = requirements]

\* an HTTP request with any body: the handler sees what parseBody makes of it
Post(ep, keyOk, body, payload, requirements) ==
    [Request(ep, keyOk, parseBody(body),
             IF body.json = "object" /\ parseBody(body) THEN payload ELSE NoPayload,
             IF body.json = "object" /\ parseBody(body) THEN requirements
             ELSE NoRequirements)
        EXCEPT !.body = body]

\* Authorized that lets every request through
Authorized_Always(f) == TRUE

\* the shared-secret test: apiKey && apiKey === API_KEY
Authorized(f) == f.keyOk

\* sendJson: the handler answers and ends
sendJson(c, answer) ==
    fcall' = [fcall EXCEPT ![c].pc = "done", ![c].answer = answer]

\* verify and verify-transfer, from the request to the balanceOf call
VerifyStart(c) ==
    /\ fcall[c].pc = "recv"
    /\ fcall[c].ep \in {"verify", "verify-transfer"}
    /\ LET f == fcall[c]
           reason == IF f.ep = "verify"
                     THEN handleVerify_checks(f.payload, f.requirements)
                     ELSE handleVerifyTransfer_checks(f.payload, f.requirements)
           recovered == IF BeforeRecovery(reason) THEN <<>> ELSE <<"verifyTypedData">>
       IN IF ~Authorized(f) THEN sendJson(c, Unauthorized)
          ELSE IF f.ep = "verify" /\ escrowAdapter = NoAddr
               THEN sendJson(c, VerifyAnswer(400, FALSE, "Escrow adapter not configured"))
          ELSE IF ~f.bodyOk
               THEN sendJson(c, VerifyAnswer(400, FALSE, "Invalid JSON body"))
          ELSE IF f.body.json = "null"
               THEN fcall' = [fcall EXCEPT ![c].pc = "thrown"]
          ELSE IF f.body.json = "scalar"
               THEN sendJson(c, VerifyAnswer(200, FALSE, LibTypeError))
          ELSE IF reason # ""
               THEN fcall' = [fcall EXCEPT ![c].pc = "done", ![c].did = recovered,
                                ![c].answer = VerifyAnswer(200, FALSE, reason)]
          ELSE fcall' = [fcall EXCEPT ![c].pc = "balanceOf", ![c].did = recovered]
    /\ UNCHANGED <<now, balance, used, txs, gate, escrowAdapter, x402_api_payments, rateLimitFile, proxy, agent, server, client, walletService, storageService, appKitService>>

\* token.balanceOf(from) returns (or the RPC call fails), then the balance,
\* time-window and amount checks; escrow goes on to the static call
VerifyBalance(c) ==
    /\ fcall[c].pc = "balanceOf"
    /\ LET f == fcall[c]
           a == f.payload.payload.authorization
           bal == balance[AssetKey(f.requirements.asset).id][a.from.id]
           reason == AfterBalance_checks(bal, now, f.payload, f.requirements)
           did == Append(f.did, "balanceOf")
       IN \/ fcall' = [fcall EXCEPT ![c].pc = "done", ![c].did = did,
                         ![c].answer = VerifyAnswer(200, FALSE, LibRpcError)]
          \/ /\ reason # ""
             /\ fcall' = [fcall EXCEPT ![c].pc = "done", ![c].did = did,
                            ![c].seenBalance = bal, ![c].seenNow = now,
                            ![c].answer = VerifyAnswer(200, FALSE, reason)]
          \/ /\ reason = ""
             /\ fcall' = [fcall EXCEPT
                   ![c].pc = IF f.ep = "verify" THEN "staticCall" ELSE "done",
                   ![c].did = did, ![c].seenBalance = bal, ![c].seenNow = now,
                   ![c].answer = IF f.ep = "verify" THEN NoAnswer
                                 ELSE VerifyAnswer(200, TRUE, "")]
    /\ UNCHANGED <<now, balance, used, txs, gate, escrowAdapter, x402_api_payments, rateLimitFile, proxy, agent, server, client, walletService, storageService, appKitService>>

\* the settlePayment transaction of an escrow request
EscrowTx(f) ==
    Tx(escrowAdapter, "settlePayment", f.requirements.asset,
       f.requirements.extra.orderId, f.payload.payload.authorization,
       f.payload.payload.signature)

\* TransferTx that pays the relayer instead
TransferTx_ToRelayer(f) ==
    Tx(f.requirements.asset, "transferWithAuthorization", f.requirements.asset,
       "", [f.payload.payload.authorization EXCEPT !.to = relayerAddress],
       f.payload.payload.signature)

\* the transferWithAuthorization transaction of a transfer request
TransferTx(f) ==
    Tx(f.requirements.asset, "transferWithAuthorization", f.requirements.asset,
       "", f.payload.payload.authorization, f.payload.payload.signature)

\* VerifySimulate that takes a reverted simulation for a passed one
VerifySimulate_IgnoresRevert(c) ==
    /\ fcall[c].pc = "staticCall"
    /\ fcall' = [fcall EXCEPT ![c].pc = "done",
                                ![c].did = Append(fcall[c].did, "staticCall"),
                                ![c].answer = VerifyAnswer(200, TRUE, "")]
    /\ UNCHANGED <<now, balance, used, txs, gate, escrowAdapter, x402_api_payments,
                   rateLimitFile, proxy, agent, server, client, walletService, storageService, appKitService>>

\* escrow verify: adapter.settlePayment.staticCall returns or reverts
VerifySimulate(c) ==
    /\ fcall[c].pc = "staticCall"
    /\ LET f == fcall[c]
           did == Append(f.did, "staticCall")
           failures == Reverts(EscrowTx(f))
       IN \/ /\ failures = {}
             /\ fcall' = [fcall EXCEPT ![c].pc = "done", ![c].did = did,
                            ![c].answer = VerifyAnswer(200, TRUE, "")]
          \/ \E r \in failures \cup {LibRpcError} :
                fcall' = [fcall EXCEPT ![c].pc = "done", ![c].did = did,
                   ![c].answer = VerifyAnswer(200, FALSE,
                                     "Settlement simulation failed: " \o r)]
    /\ UNCHANGED <<now, balance, used, txs, gate, escrowAdapter, x402_api_payments, rateLimitFile, proxy, agent, server, client, walletService, storageService, appKitService>>

\* settle and settle-transfer, from the request to the broadcast: no check
\* of the payload is made
SettleStart(c) ==
    /\ fcall[c].pc = "recv"
    /\ fcall[c].ep \in {"settle", "settle-transfer"}
    /\ LET f == fcall[c] IN
       IF ~Authorized(f) THEN sendJson(c, Unauthorized) /\ UNCHANGED txs
       ELSE IF f.ep = "settle" /\ escrowAdapter = NoAddr
            THEN /\ sendJson(c, Answer(400, FALSE, "", FALSE,
                                       "Escrow adapter not configured", "", NoAddr))
                 /\ UNCHANGED txs
       ELSE IF ~f.bodyOk
            THEN /\ sendJson(c, Answer(400, FALSE, "", FALSE, "Invalid JSON body", "", NoAddr))
                 /\ UNCHANGED txs
       ELSE IF f.body.json = "null"
            THEN /\ fcall' = [fcall EXCEPT ![c].pc = "thrown"]
                 /\ UNCHANGED txs
       ELSE IF f.body.json = "scalar"
            THEN /\ sendJson(c, SettleError(LibTypeError))
                 /\ UNCHANGED txs
       ELSE \/ /\ fcall' = [fcall EXCEPT ![c].pc = "wait",
                              ![c].did = <<"sendTransaction">>]
               /\ txs' = [txs EXCEPT ![c] = IF f.ep = "settle" THEN EscrowTx(f)
                                            ELSE TransferTx(f)]
            \/ /\ sendJson(c, SettleError(LibRpcError))
               /\ UNCHANGED txs
    /\ UNCHANGED <<now, balance, used, gate, escrowAdapter, x402_api_payments, rateLimitFile, proxy, agent, server, client, walletService, storageService, appKitService>>

\* error.reason || error.message of the error tx.wait() raises for a
\* reverted receipt; the library may or may not carry the revert reason
WaitError(reason) == IF reason # "" THEN reason ELSE "transaction execution reverted"

\* SettlementResult naming the relayer as the payer
SettlementResult_Relayer(c, from) == Answer(200, FALSE, "", TRUE, "", c[1], relayerAddress)

\* the settlement result of a confirmed receipt
SettlementResult(c, from) == Answer(200, FALSE, "", TRUE, "", c[1], from)

\* SettleFinish with a wait that returns reverted receipts instead of throwing
SettleFinish_AnyReceipt(c) ==
    /\ fcall[c].pc = "wait"
    /\ txs[c].status \in {"success", "reverted"}
    /\ sendJson(c, SettlementResult(c, fcall[c].payload.payload.authorization.from))
    /\ UNCHANGED <<now, balance, used, txs, gate, escrowAdapter, x402_api_payments, rateLimitFile, proxy, agent, server, client, walletService, storageService, appKitService>>

\* tx.wait() returns the receipt, or throws for a reverted transaction
SettleFinish(c) ==
    /\ fcall[c].pc = "wait"
    /\ txs[c].status \in {"success", "reverted"}
    /\ IF txs[c].status = "success"
       THEN sendJson(c, SettlementResult(c, fcall[c].payload.payload.authorization.from))
       ELSE \E r \in {txs[c].revert, ""} : sendJson(c, SettleError(WaitError(r)))
    /\ UNCHANGED <<now, balance, used, txs, gate, escrowAdapter, x402_api_payments, rateLimitFile, proxy, agent, server, client, walletService, storageService, appKitService>>

\* an answer of the demo endpoint: { success, message } or the relayed body
DemoAnswer(status, success) == Answer(status, FALSE, "", success, "", "", NoAddr)

\* demo-ai, from the request to its first fetch of the paid endpoint
DemoAiStart(c) ==
    /\ fcall[c].pc = "recv"
    /\ fcall[c].ep = "demo-ai"
    /\ LET f == fcall[c] IN
       IF ~Authorized(f) THEN sendJson(c, Unauthorized)
       ELSE IF ~f.bodyOk THEN sendJson(c, DemoAnswer(400, FALSE))
       ELSE IF f.body.json = "null" THEN fcall' = [fcall EXCEPT ![c].pc = "thrown"]
       ELSE IF f.body.json = "scalar" THEN sendJson(c, DemoAnswer(422, FALSE))
       ELSE \/ \E st \in {422, 500} : sendJson(c, DemoAnswer(st, FALSE))
            \/ fcall' = [fcall EXCEPT ![c].pc = "fetch"]
    /\ UNCHANGED <<now, balance, used, txs, gate, escrowAdapter, x402_api_payments, rateLimitFile, proxy, agent, server, client, walletService, storageService, appKitService>>

\* the calls demo-ai makes in its try block, in order
DemoCalls == <<"fetch", "balanceOf", "signTypedData", "fetch">>

\* handleDemoAi_steps without the balance test
handleDemoAi_steps_NoBalanceTest(firstRes, balanceOk, bal, amount, paidRes) ==
    LET end(n, status) == [did |-> SubSeq(DemoCalls, 1, n),
                           answer |-> DemoAnswer(status, status = 200)]
    IN IF firstRes.status = 0 THEN end(1, 500)
       ELSE IF firstRes.status # 402 THEN end(1, 502)
       ELSE IF ~firstRes.hasHeader THEN end(1, 502)
       ELSE IF ~balanceOk THEN end(2, 500)
       ELSE IF paidRes.status = 0 THEN end(4, 500)
       ELSE IF paidRes.status # 200 \/ ~paidRes.success
            THEN end(4, IF paidRes.status >= 400 THEN paidRes.status ELSE 502)
       ELSE end(4, 200)

\* the try block of handleDemoAi: the calls it makes and its answer, given
\* the first response (status 0: fetch threw), the demo wallet's balance (or
\* a failed read), requirements.amount and the paid response (status 0: fetch
\* or json() threw)
handleDemoAi_steps(firstRes, balanceOk, bal, amount, paidRes) ==
    LET end(n, status) == [did |-> SubSeq(DemoCalls, 1, n),
                           answer |-> DemoAnswer(status, status = 200)]
    IN IF firstRes.status = 0 THEN end(1, 500)
       ELSE IF firstRes.status # 402 THEN end(1, 502)
       ELSE IF ~firstRes.hasHeader THEN end(1, 502)
       ELSE IF ~balanceOk THEN end(2, 500)
       ELSE IF bal < amount THEN end(2, 400)
       ELSE IF paidRes.status = 0 THEN end(4, 500)
       ELSE IF paidRes.status # 200 \/ ~paidRes.success
            THEN end(4, IF paidRes.status >= 400 THEN paidRes.status ELSE 502)
       ELSE end(4, 200)

\* the responses of the paid endpoint to the first and to the paid request
FirstResponses ==
    {[status |-> st, hasHeader |-> h] : st \in {0, 200, 402, 500}, h \in BOOLEAN}
PaidResponses ==
    {[status |-> st, success |-> st = 200] : st \in {0, 200, 402, 500, 502, 503}}
        \cup {[status |-> 200, success |-> FALSE]}

\* demo-ai as a buyer: it fetches the paid endpoint, reads the demo wallet's
\* balance, signs, fetches again with PAYMENT-SIGNATURE and relays the answer;
\* the two fetches are gate requests of their own
DemoAiFinish(c) ==
    /\ fcall[c].pc = "fetch"
    /\ \E firstRes \in FirstResponses, balanceOk \in BOOLEAN,
          amount \in {Price, 3 * Price}, paidRes \in PaidResponses :
          LET bal == balance["usdt0"]["buyer"]
              steps == handleDemoAi_steps(firstRes, balanceOk, bal, amount, paidRes)
          IN fcall' = [fcall EXCEPT
                ![c].pc = "done",
                ![c].did = steps.did,
                ![c].firstRes = firstRes,
                ![c].requirements =
                    IF firstRes.status = 402 /\ firstRes.hasHeader
                    THEN PaymentRequirements(amount, USDT0, Treasury,
                             Extra("transfer", "", "USDT0", "1", ""))
                    ELSE NoRequirements,
                ![c].seenBalance = IF Len(steps.did) >= 2 /\ balanceOk THEN bal ELSE 0,
                ![c].answer = steps.answer]
    /\ UNCHANGED <<now, balance, used, txs, gate, escrowAdapter, x402_api_payments, rateLimitFile, proxy, agent, server, client, walletService, storageService, appKitService>>

----------------------------------------------------------------------------
\* Payment gate (X402Middleware) and the paid endpoint behind it

\* a request header value: absent; "garbage", text that does not decode to a
\* JSON value or decodes to one PHP holds falsy (null, false, 0, "", [], {});
\* "scalar", an encoded JSON value that is no object (5, "abc", true, [1]);
\* or "payload", an encoded payload object
Header(kind, payload) == [kind |-> kind, payload |-> payload]
NoHeader == Header("absent", NoPayload)

\* PHP's truth value of json_decode(base64_decode($paymentHeader), true)
Truthy(h) == h.kind \in {"payload", "scalar"}

\* base64_encode(json_encode(v)) of a settlement result, and its decoding
Base64Json(v) == [encoding |-> "base64-json", value |-> v]
DecodeBase64Json(h) == h.value
NoResponseHeader == [encoding |-> "", value |-> NoAnswer]

\* json_decode(base64_decode($paymentHeader), true): the payload, or NoPayload
\* for a value that has none of a payload's fields
DecodeHeader(h) == IF h.kind = "payload" THEN h.payload ELSE NoPayload

\* callFacilitator's return value: null unless the HTTP status is 200 or 402
NullResult == [isNull |-> TRUE, json |-> NoAnswer]
callFacilitator(answer) ==
    IF answer.status # 200 /\ answer.status # 402 THEN NullResult
    ELSE [isNull |-> FALSE, json |-> answer]

\* $verifyResult['reason'] ?? 'unknown' and $settleResult['error'] ?? 'unknown'
OrUnknown(text) == IF text = "" THEN "unknown" ELSE text

\* a gate request before its handler runs; calls lists the endpoints the
\* request has posted to, in order, and replay tells whether the request
\* arrived with the payload of a payment that was already settled
NewGate == [pc |-> "new", handler |-> "", header |-> NoHeader,
            requirements |-> NoRequirements,
            verifyAnswer |-> NoAnswer, settleAnswer |-> NoAnswer,
            verifyResult |-> NullResult, settleResult |-> NullResult,
            status |-> 0, error_code |-> "", message |-> "", calls |-> <<>>,
            replay |-> FALSE, logError |-> FALSE,
            paymentRequired |-> <<>>, paymentResponse |-> NoResponseHeader]

\* Response::error: the body, the status, and exit
ResponseError(g, message, status, error_code) ==
    [gate[g] EXCEPT !.pc = "done", !.status = status,
                    !.error_code = error_code, !.message = message]

\* the facilitator endpoints of handle() and handleTransfer()
VerifyEndpoint(handler) == IF handler = "handle" THEN "verify" ELSE "verify-transfer"

\* SettleEndpoint that settles every request through the escrow endpoint
SettleEndpoint_Escrow(handler) == "settle"

SettleEndpoint(handler) == IF handler = "handle" THEN "settle" ELSE "settle-transfer"

\* the requirements ai.php builds (transfer), and those of an escrow endpoint
TransferRequirements ==
    PaymentRequirements(Price, USDT0, Treasury, Extra("transfer", "", "USDT0", "1", ""))
EscrowRequirements ==
    PaymentRequirements(Price, USDT0, Treasury, Extra("escrow", "eip3009", "USDT0", "1", "order1"))

\* the client flows: X402Service, the CLI agent, the demo-ai helper
Signers == {"service", "agent", "demo"}

\* a client having decoded the array: no flow has selected or signed yet
NewClient(requirementsList) ==
    [requirementsList |-> requirementsList,
     flow |-> [k \in Signers |->
                 [pc |-> "decoded", requirements |-> NoRequirements,
                  payload |-> NoPayload]]]

\* another request to the same handler carried this payload and its
\* settlement transaction has succeeded
SettledBefore(g, handler, header) ==
    /\ header.kind = "payload"
    /\ \E h \in GateIds \ {g} :
          /\ gate[h].handler = handler
          /\ gate[h].header = header
          /\ txs[<<h, "settle">>].status = "success"

\* send402 that sets no PAYMENT-REQUIRED header
send402_NoHeader(start, requirements) ==
    [start EXCEPT !.pc = "done", !.status = 402,
                  !.error_code = "X402_PAYMENT_REQUIRED",
                  !.message = "Payment Required"]

\* send402: status 402, PAYMENT-REQUIRED carrying json_encode([$requirements])
\* (the decoded header value is kept: a JSON array of one object), and exit
send402(start, requirements) ==
    [start EXCEPT !.pc = "done", !.status = 402,
                  !.error_code = "X402_PAYMENT_REQUIRED",
                  !.message = "Payment Required",
                  !.paymentRequired = <<requirements>>]

\* handle($requirements) / handleTransfer($requirements) from the request to
\* the verify call
GateCall(g, handler, requirements, header) ==
    /\ gate[g].pc = "new"
    /\ LET payload == DecodeHeader(header)
           start == [gate[g] EXCEPT !.handler = handler, !.header = header,
                                    !.requirements = requirements,
                                    !.replay = SettledBefore(g, handler, header)]
       IN IF header.kind = "absent"
          THEN /\ gate' = [gate EXCEPT ![g] = send402(start, requirements)]
               /\ UNCHANGED fcall
          ELSE IF ~Truthy(header)
          THEN /\ gate' = [gate EXCEPT ![g] =
                     [start EXCEPT !.pc = "done", !.status = 400,
                                   !.error_code = "X402_INVALID_PAYLOAD",
                                   !.message = "Invalid PAYMENT-SIGNATURE header"]]
               /\ UNCHANGED fcall
          ELSE /\ gate' = [gate EXCEPT ![g] =
                     [start EXCEPT !.pc = "verify",
                                   !.calls = <<VerifyEndpoint(handler)>>]]
               /\ fcall' = [fcall EXCEPT ![<<g, "verify">>] =
                     Request(VerifyEndpoint(handler), TRUE, TRUE, payload, requirements)]
    /\ UNCHANGED <<now, balance, used, txs, escrowAdapter, x402_api_payments, rateLimitFile, proxy, agent, server, client, walletService, storageService, appKitService>>

\* ai.php before the gate: without X402_API_TREASURY it answers 503 and
\* exits, and no handler is called
EndpointUnavailable(g) ==
    /\ gate[g].pc = "new"
    /\ gate' = [gate EXCEPT ![g].pc = "done", ![g].status = 503,
                            ![g].error_code = "SRV_SERVICE_UNAVAILABLE",
                            ![g].message = "Treasury address not configured"]
    /\ UNCHANGED <<now, balance, used, txs, fcall, escrowAdapter, x402_api_payments,
                   rateLimitFile, proxy, agent, server, client, walletService, storageService, appKitService>>

\* an endpoint that calls the handler of its mode: ai.php builds transfer
\* requirements and calls handleTransfer
GateStart(g, handler, header) ==
    GateCall(g, handler,
             IF handler = "handle" THEN EscrowRequirements ELSE TransferRequirements,
             header)

\* AfterVerify whose error branch does not exit
AfterVerify_NoExit(g, answer) ==
    LET result == callFacilitator(answer) IN
    /\ gate' = [gate EXCEPT ![g].pc = "settle", ![g].verifyAnswer = answer,
                            ![g].verifyResult = result,
                            ![g].calls = Append(@, SettleEndpoint(gate[g].handler))]
    /\ fcall' = [fcall EXCEPT ![<<g, "settle">>] =
          Request(SettleEndpoint(gate[g].handler), TRUE, TRUE,
                  DecodeHeader(gate[g].header), gate[g].requirements)]

\* the gate from the end of the verify call, whose HTTP answer was `answer`
\* (NoAnswer when none came), to the settle call
AfterVerify(g, answer) ==
    LET result == callFacilitator(answer) IN
    IF result.isNull \/ ~result.json.valid
    THEN /\ gate' = [gate EXCEPT ![g] =
               [ResponseError(g, "Payment verification failed: "
                                   \o OrUnknown(result.json.reason),
                              402, "X402_VERIFY_FAILED")
                  EXCEPT !.verifyAnswer = answer, !.verifyResult = result]]
         /\ UNCHANGED fcall
    ELSE /\ gate' = [gate EXCEPT ![g].pc = "settle", ![g].verifyAnswer = answer,
                                 ![g].verifyResult = result,
                                 ![g].calls = Append(@, SettleEndpoint(gate[g].handler))]
         /\ fcall' = [fcall EXCEPT ![<<g, "settle">>] =
               Request(SettleEndpoint(gate[g].handler), TRUE, TRUE,
                       DecodeHeader(gate[g].header), gate[g].requirements)]

\* the verify call answers
GateVerifyReturn(g) ==
    /\ gate[g].pc = "verify"
    /\ fcall[<<g, "verify">>].pc = "done"
    /\ AfterVerify(g, fcall[<<g, "verify">>].answer)
    /\ UNCHANGED <<now, balance, used, txs, escrowAdapter, x402_api_payments, rateLimitFile, proxy, agent, server, client, walletService, storageService, appKitService>>

\* CURLOPT_TIMEOUT passes before the verify call answers
GateVerifyTimeout(g) ==
    /\ gate[g].pc = "verify"
    /\ fcall[<<g, "verify">>].pc # "done"
    /\ AfterVerify(g, NoAnswer)
    /\ UNCHANGED <<now, balance, used, txs, escrowAdapter, x402_api_payments, rateLimitFile, proxy, agent, server, client, walletService, storageService, appKitService>>

\* AfterSettle that posts the settle call again after a failure (twice at most)
AfterSettle_Retry(g, answer) ==
    LET result == callFacilitator(answer) IN
    IF (result.isNull \/ ~result.json.success) /\ Len(gate[g].calls) < 4
    THEN gate' = [gate EXCEPT ![g].settleAnswer = answer, ![g].settleResult = result,
                              ![g].calls = Append(@, SettleEndpoint(gate[g].handler))]
    ELSE IF result.isNull \/ ~result.json.success
    THEN gate' = [gate EXCEPT ![g] =
               [ResponseError(g, "Payment settlement failed: "
                                   \o OrUnknown(result.json.error),
                              500, "X402_SETTLE_FAILED")
                  EXCEPT !.settleAnswer = answer, !.settleResult = result]]
    ELSE gate' = [gate EXCEPT ![g].pc = "resource", ![g].settleAnswer = answer,
                              ![g].settleResult = result,
                              ![g].paymentResponse = Base64Json(result.json)]

\* AfterSettle whose error branch does not exit
AfterSettle_NoExit(g, answer) ==
    LET result == callFacilitator(answer) IN
    gate' = [gate EXCEPT ![g].pc = "resource", ![g].settleAnswer = answer,
                         ![g].settleResult = result,
                         ![g].paymentResponse = Base64Json(result.json)]

\* the gate from the end of the settle call, whose HTTP answer was `answer`,
\* to the PAYMENT-RESPONSE header and the return to the paid endpoint
AfterSettle(g, answer) ==
    LET result == callFacilitator(answer) IN
    IF result.isNull \/ ~result.json.success
    THEN gate' = [gate EXCEPT ![g] =
               [ResponseError(g, "Payment settlement failed: "
                                   \o OrUnknown(result.json.error),
                              500, "X402_SETTLE_FAILED")
                  EXCEPT !.settleAnswer = answer, !.settleResult = result]]
    ELSE gate' = [gate EXCEPT ![g].pc = "resource", ![g].settleAnswer = answer,
                              ![g].settleResult = result,
                              ![g].paymentResponse = Base64Json(result.json)]

\* the settle call answers
GateSettleReturn(g) ==
    /\ gate[g].pc = "settle"
    /\ fcall[<<g, "settle">>].pc = "done"
    /\ AfterSettle(g, fcall[<<g, "settle">>].answer)
    /\ UNCHANGED <<now, balance, used, txs, fcall, escrowAdapter, x402_api_payments, rateLimitFile, proxy, agent, server, client, walletService, storageService, appKitService>>

\* CURLOPT_TIMEOUT passes before the settle call answers
GateSettleTimeout(g) ==
    /\ gate[g].pc = "settle"
    /\ fcall[<<g, "settle">>].pc # "done"
    /\ AfterSettle(g, NoAnswer)
    /\ UNCHANGED <<now, balance, used, txs, fcall, escrowAdapter, x402_api_payments, rateLimitFile, proxy, agent, server, client, walletService, storageService, appKitService>>

\* the row ai.php inserts for a settlement
PaymentRow(settlement) ==
    [endpoint |-> "/api/x402/ai", payer_address |-> settlement.payer,
     asset_address |-> USDT0, amount |-> Price,
     tx_hash |-> settlement.transaction]

\* Resource that answers 500 when the payment log cannot be written
Resource_LogErrorFails(g, status) ==
    /\ gate[g].pc = "resource"
    /\ \/ /\ gate' = [gate EXCEPT ![g].pc = "done", ![g].status = status,
                        ![g].error_code = IF status = 200 THEN ""
                                          ELSE IF status = 503 THEN "SRV_SERVICE_UNAVAILABLE"
                                          ELSE "SRV_EXTERNAL_ERROR",
                        ![g].message = IF status = 200 THEN "Success"
                                       ELSE IF status = 503 THEN "AI service not configured"
                                       ELSE "AI service error"]
          /\ x402_api_payments' =
                IF status = 200
                THEN Append(x402_api_payments, PaymentRow(gate[g].settleResult.json))
                ELSE x402_api_payments
       \/ /\ status = 200
          /\ gate' = [gate EXCEPT ![g].pc = "done", ![g].status = 500,
                        ![g].error_code = "SRV_INTERNAL_ERROR",
                        ![g].message = "Database error", ![g].logError = TRUE]
          /\ UNCHANGED x402_api_payments
    /\ UNCHANGED <<now, balance, used, txs, fcall, escrowAdapter, rateLimitFile, proxy, agent, server, client, walletService, storageService, appKitService>>

\* ai.php after the gate returned the settlement: the AI service is not
\* configured (503) or fails (502) and the request ends, or it answers and
\* the payment is logged (the insert may throw, which is caught and logged)
\* before the answer is returned (200)
Resource(g, status) ==
    /\ gate[g].pc = "resource"
    /\ \/ /\ gate' = [gate EXCEPT ![g].pc = "done", ![g].status = status,
                        ![g].error_code = IF status = 200 THEN ""
                                          ELSE IF status = 503 THEN "SRV_SERVICE_UNAVAILABLE"
                                          ELSE "SRV_EXTERNAL_ERROR",
                        ![g].message = IF status = 200 THEN "Success"
                                       ELSE IF status = 503 THEN "AI service not configured"
                                       ELSE "AI service error"]
          /\ x402_api_payments' =
                IF status = 200
                THEN Append(x402_api_payments, PaymentRow(gate[g].settleResult.json))
                ELSE x402_api_payments
       \/ /\ status = 200
          /\ gate' = [gate EXCEPT ![g].pc = "done", ![g].status = 200,
                        ![g].error_code = "", ![g].message = "Success",
                        ![g].logError = TRUE]
          /\ UNCHANGED x402_api_payments
    /\ UNCHANGED <<now, balance, used, txs, fcall, escrowAdapter, rateLimitFile, proxy, agent, server, client, walletService, storageService, appKitService>>

----------------------------------------------------------------------------
\* Requests

Buyer == Addr("buyer", "mixed")
Attacker == Addr("attacker", "mixed")

\* an authorization of the buyer for the price, valid until time 2
AuthTransfer == Authorization(Buyer, Treasury, Price, 0, 2, "n1")
AuthEscrow == Authorization(Buyer, Adapter, Price, 0, 2, "n1")

ExactPayload(signature, authorization) ==
    PaymentPayload(2, "exact", "eip155:1030", signature, authorization)

\* signed by the buyer, for the treasury and for the adapter
PayTransfer == ExactPayload(SignedBy("buyer", "USDT0", USDT0, AuthTransfer), AuthTransfer)
PayEscrow == ExactPayload(SignedBy("buyer", "USDT0", USDT0, AuthEscrow), AuthEscrow)

\* the buyer's authorization signed with somebody else's key
PayForged == ExactPayload(SignedBy("attacker", "USDT0", USDT0, AuthTransfer), AuthTransfer)

\* the buyer's authorization for the treasury, expired since time 0
AuthExpired == Authorization(Buyer, Treasury, Price, 0, 0, "n2")
PayExpired == ExactPayload(SignedBy("buyer", "USDT0", USDT0, AuthExpired), AuthExpired)

\* the buyer's authorization for less than the price
AuthUnder == Authorization(Buyer, Treasury, Price - 1, 0, 2, "n2")
AuthUnderEscrow == Authorization(Buyer, Adapter, Price - 1, 0, 2, "n2")
PayUnder == ExactPayload(SignedBy("buyer", "USDT0", USDT0, AuthUnder), AuthUnder)
PayUnderEscrow ==
    ExactPayload(SignedBy("buyer", "USDT0", USDT0, AuthUnderEscrow), AuthUnderEscrow)

Handlers == {"handle", "handleTransfer"}

\* the requests the first client sends, and those of the second, which pays
\* with the same authorization
GateInputs(g) ==
    IF g = "g1"
    THEN Handlers \X {NoHeader, Header("garbage", NoPayload),
                      Header("scalar", NoPayload),
                      Header("payload", PayTransfer), Header("payload", PayEscrow),
                      Header("payload", PayForged), Header("payload", PayExpired),
                      Header("payload", PayUnder), Header("payload", PayUnderEscrow)}
    ELSE {<<"handleTransfer", Header("payload", PayTransfer)>>,
          <<"handle", Header("payload", PayEscrow)>>}

\* a holder of the API key (or not) posts to an endpoint itself, with a
\* JSON body or one that is no JSON
DirectRequest(d, ep, keyOk, bodyOk, payload) ==
    /\ fcall[<<d, "direct">>].pc = "idle"
    /\ fcall' = [fcall EXCEPT ![<<d, "direct">>] =
          IF ~bodyOk THEN Request(ep, keyOk, FALSE, NoPayload, NoRequirements)
          ELSE Request(ep, keyOk, TRUE, payload,
                       IF ep \in {"settle", "verify"} THEN EscrowRequirements
                       ELSE TransferRequirements)]
    /\ UNCHANGED <<now, balance, used, txs, gate, escrowAdapter, x402_api_payments, rateLimitFile, proxy, agent, server, client, walletService, storageService, appKitService>>

----------------------------------------------------------------------------
\* The system: gate requests, direct settle requests, facilitator, chain

Init ==
    /\ now = 1
    /\ balance = [t \in Tokens |-> [a \in Accounts |->
                     IF t = "usdt0" /\ a = "buyer" THEN 2 * Price ELSE 0]]
    /\ used = {}
    /\ txs = [c \in FCallIds |-> NoTx]
    /\ fcall = [c \in FCallIds |-> Idle]
    /\ gate = [g \in GateIds |-> NewGate]
    /\ escrowAdapter \in {Adapter, NoAddr}
    /\ x402_api_payments = <<>>
    /\ rateLimitFile = <<>>
    /\ proxy = [r \in ProxyIds |-> NewProxyRequest]
    /\ agent = [a \in AgentRuns |-> NewAgentRun]
    /\ server = Listening
    /\ client = NewClient(<<TransferRequirements>>)
    /\ walletService = NewWalletService
    /\ storageService = NewStorageService
    /\ appKitService = NewAppKitService

\* one step of gate request g
GateStep(g) ==
    \/ EndpointUnavailable(g)
    \/ \E in \in GateInputs(g) : GateStart(g, in[1], in[2])
    \/ GateVerifyReturn(g)
    \/ GateVerifyTimeout(g)
    \/ GateSettleReturn(g)
    \/ GateSettleTimeout(g)
    \/ \E st \in {200, 502, 503} : Resource(g, st)

\* one step of a facilitator handler
Facilitator ==
    \E c \in FCallIds :
        \/ VerifyStart(c)
        \/ VerifyBalance(c)
        \/ VerifySimulate(c)
        \/ SettleStart(c)
        \/ SettleFinish(c)

\* one step of the chain or the clock
Chain == (\E c \in FCallIds : Mine(c)) \/ Tick

\* two clients of the paid endpoint
Next == (\E g \in GateIds : GateStep(g)) \/ Facilitator \/ Chain

Spec == Init /\ [][Next]_vars

\* the POST routes of the facilitator (all but GET /x402/health)
Endpoints == {"verify", "settle", "verify-transfer", "settle-transfer", "demo-ai"}

\* one client of the paid endpoint and a caller that holds (or lacks) the
\* API key and posts to the facilitator itself
Direct ==
    \E d \in DirectIds, ep \in Endpoints, k \in BOOLEAN, b \in BOOLEAN,
       p \in {PayTransfer, PayForged} : DirectRequest(d, ep, k, b, p)

\* one step of a demo-ai handler
Demo == \E c \in FCallIds : DemoAiStart(c) \/ DemoAiFinish(c)

\* an endpoint that passes requirements of one mode to the handler of the
\* other: the handlers take any requirements
GateOtherMode(g) ==
    \E handler \in Handlers, p \in {PayTransfer, PayEscrow} :
        GateCall(g, handler,
                 IF handler = "handle" THEN TransferRequirements ELSE EscrowRequirements,
                 Header("payload", p))

NextOpen ==
    GateStep("g1") \/ GateOtherMode("g1") \/ Direct \/ Facilitator \/ Demo \/ Chain

SpecOpen == Init /\ [][NextOpen]_vars

----------------------------------------------------------------------------
\* One verify request with any payload: the request a holder of the API key
\* posts to verify or verify-transfer, over payloads and requirements that
\* fail any combination of the checks

VerifyWindows == {<<0, 2>>, <<0, 0>>, <<2, 2>>, <<1, 1>>}

VerifyAuthorizations ==
    {Authorization(from, to, value, w[1], w[2], "n1") :
        from \in {Buyer, toLowerCase(Buyer)},
        to \in {Treasury, Adapter, toLowerCase(Treasury), toLowerCase(Adapter)},
        value \in {Price - 1, Price, 2 * Price + 1},
        w \in VerifyWindows}

\* signed by the buyer, by somebody else, by the buyer for another token, or
\* no signature at all
VerifySignatures(a) ==
    {SignedBy("buyer", "USDT0", USDT0, a), SignedBy("attacker", "USDT0", USDT0, a),
     SignedBy("buyer", "CNHT0", CNHT0, a), MalformedSig}

VerifyPayloads ==
    {PaymentPayload(v, sch, net, sig, a) :
        v \in {1, 2}, sch \in {"exact", "upto"}, net \in {"eip155:1030", "eip155:1"},
        sig \in UNION {VerifySignatures(x) : x \in VerifyAuthorizations},
        a \in VerifyAuthorizations}

VerifyRequirements ==
    {PaymentRequirements(Price, asset, Treasury, Extra(m[1], m[2], "USDT0", "1", "order1")) :
        asset \in {USDT0, Addr("usdt0", "mixed"), Addr("other", "lower")},
        m \in {<<"transfer", "">>, <<"escrow", "eip3009">>, <<"", "">>}}

\* the request that carries payload p and requirements r with the API key;
\* for the payment of the right price also the same request without the key,
\* and the request with the key whose body is no JSON
VerifyRequests(ep, p, r) ==
    {Request(ep, TRUE, TRUE, p, r)}
    \cup (IF p \in {PayTransfer, PayEscrow} /\ r = EscrowRequirements
          THEN {Request(ep, FALSE, TRUE, p, r), Request(ep, FALSE, FALSE, NoPayload, NoRequirements),
                Request(ep, TRUE, FALSE, NoPayload, NoRequirements)}
          ELSE {})

InitVerify ==
    /\ now = 1
    /\ balance = [t \in Tokens |-> [a \in Accounts |->
                     IF t = "usdt0" /\ a = "buyer" THEN 2 * Price ELSE 0]]
    /\ txs = [c \in FCallIds |-> NoTx]
    /\ gate = [g \in GateIds |-> NewGate]
    /\ escrowAdapter \in {Adapter, NoAddr}
    /\ x402_api_payments = <<>>
    /\ rateLimitFile = <<>>
    /\ proxy = [r \in ProxyIds |-> NewProxyRequest]
    /\ agent = [a \in AgentRuns |-> NewAgentRun]
    /\ server = Listening
    /\ client = NewClient(<<TransferRequirements>>)
    /\ walletService = NewWalletService
    /\ storageService = NewStorageService
    /\ appKitService = NewAppKitService
    /\ \E ep \in {"verify", "verify-transfer"}, p \in VerifyPayloads,
          r \in VerifyRequirements :
          /\ p.payload.signature \in VerifySignatures(p.payload.authorization)
          /\ fcall \in {[c \in FCallIds |-> IF c = <<"d1", "direct">> THEN q ELSE Idle] :
                           q \in VerifyRequests(ep, p, r)}
          /\ used \in IF ep = "verify" THEN {{}, {<<"usdt0", "buyer", "n1">>}} ELSE {{}}

NextVerify ==
    \E c \in FCallIds : VerifyStart(c) \/ VerifyBalance(c) \/ VerifySimulate(c)

SpecVerify == InitVerify /\ [][NextVerify]_vars

----------------------------------------------------------------------------
\* The buyer's client (X402Service.payAndFetch) against the transfer-mode
\* endpoint: the first request is gate request g1, the retry is g2

\* validBefore - now of a signed payment: 3600 s, longer than a request can
\* take (the gate waits 30 s for each of its two calls), so longer than the
\* clock of the model runs
Hour == MaxTime

\* selectRequirements: the first entry the client can pay, or NoRequirements
RECURSIVE selectRequirements(_)
selectRequirements(requirementsList) ==
    IF requirementsList = <<>> THEN NoRequirements
    ELSE LET r == Head(requirementsList) IN
         IF /\ r.scheme = "exact"
            /\ r.network = "eip155:1030"
            /\ (r.extra.settlementMode = "transfer"
                \/ r.extra.assetTransferMethod = "eip3009")
         THEN r
         ELSE selectRequirements(Tail(requirementsList))

\* signPayment that signs an authorization already expired
signPayment_Expired(requirements, signer, nonce) ==
    LET message == Authorization(Addr(signer, "mixed"), requirements.payTo,
                                 requirements.amount, 0, 0, nonce)
        domain == [name |-> requirements.extra.name,
                   version |-> requirements.extra.version,
                   chainId |-> 1030, verifyingContract |-> requirements.asset]
    IN PaymentPayload(2, "exact", "eip155:1030",
                      Sig(signer, Digest(domain, message)), message)

\* signPayment: the authorization for the required amount to payTo, valid from
\* 0 until an hour from now, signed under the domain the requirements name
signPayment(requirements, signer, nonce) ==
    LET message == Authorization(Addr(signer, "mixed"), requirements.payTo,
                                 requirements.amount, 0, now + Hour, nonce)
        domain == [name |-> requirements.extra.name,
                   version |-> requirements.extra.version,
                   chainId |-> 1030, verifyingContract |-> requirements.asset]
    IN PaymentPayload(2, "exact", "eip155:1030",
                      Sig(signer, Digest(domain, message)), message)

\* payAndFetch step 1: the request without payment
ClientRequest == GateStart("g1", "handleTransfer", NoHeader)

\* payAndFetch steps 2 to 4: the answer was 402; parse PAYMENT-REQUIRED,
\* select, sign with a fresh nonce and send the request again
ClientRetry ==
    /\ gate["g1"].pc = "done"
    /\ gate["g1"].status = 402
    /\ gate["g1"].paymentRequired # <<>>
    /\ selectRequirements(gate["g1"].paymentRequired) # NoRequirements
    /\ GateStart("g2", "handleTransfer",
                 Header("payload",
                        signPayment(selectRequirements(gate["g1"].paymentRequired),
                                    "buyer", "n3")))

\* the buyer holds at least the price
InitHappy ==
    /\ now = 1
    /\ balance \in {[t \in Tokens |-> [a \in Accounts |->
                        IF t = "usdt0" /\ a = "buyer" THEN b ELSE 0]] :
                    b \in {Price, Price + 1, 2 * Price}}
    /\ used \in {{}, {<<"usdt0", "buyer", "n1">>}}
    /\ txs = [c \in FCallIds |-> NoTx]
    /\ fcall = [c \in FCallIds |-> Idle]
    /\ gate = [g \in GateIds |-> NewGate]
    /\ escrowAdapter \in {Adapter, NoAddr}
    /\ x402_api_payments = <<>>
    /\ rateLimitFile = <<>>
    /\ proxy = [r \in ProxyIds |-> NewProxyRequest]
    /\ agent = [a \in AgentRuns |-> NewAgentRun]
    /\ server = Listening
    /\ client = NewClient(<<TransferRequirements>>)
    /\ walletService = NewWalletService
    /\ storageService = NewStorageService
    /\ appKitService = NewAppKitService

\* the gate after its calls, and the paid endpoint
GateAfter(g) ==
    \/ GateVerifyReturn(g)
    \/ GateVerifyTimeout(g)
    \/ GateSettleReturn(g)
    \/ GateSettleTimeout(g)
    \/ \E st \in {200, 502, 503} : Resource(g, st)

\* the transfer-mode handlers of the facilitator
FacilitatorTransfer ==
    \E c \in FCallIds :
        VerifyStart(c) \/ VerifyBalance(c) \/ SettleStart(c) \/ SettleFinish(c)

NextHappy ==
    \/ ClientRequest
    \/ ClientRetry
    \/ \E g \in GateIds : GateAfter(g)
    \/ FacilitatorTransfer
    \/ Chain

\* every process that can take a step eventually takes one: the client, the
\* PHP request, the facilitator's handlers, the chain
FairHappy ==
    /\ WF_vars(ClientRequest)
    /\ WF_vars(ClientRetry)
    /\ \A g \in GateIds :
          /\ WF_vars(GateVerifyReturn(g))
          /\ WF_vars(GateSettleReturn(g))
          /\ WF_vars(\E st \in {200, 502, 503} : Resource(g, st))
    /\ \A c \in FCallIds :
          /\ WF_vars(VerifyStart(c))
          /\ WF_vars(VerifyBalance(c))
          /\ WF_vars(SettleStart(c))
          /\ WF_vars(SettleFinish(c))
          /\ WF_vars(Mine(c))

SpecHappy == InitHappy /\ [][NextHappy]_vars /\ FairHappy

----------------------------------------------------------------------------
\* The demo proxy under the requests of one IP

NextProxy == Tick \/ \E r \in ProxyIds : ProxyRead(r) \/ ProxyWrite(r)

SpecProxy == Init /\ [][NextProxy]_vars

----------------------------------------------------------------------------
\* The three signers: the browser's X402Service, the CLI agent and the
\* demo-ai helper of the facilitator, each posting what it signed to
\* verify-transfer

\* the TransferWithAuthorization field list of the facilitator, of
\* X402Service, of the CLI agent (the demo-ai helper uses the facilitator's)
TRANSFER_AUTH_TYPES ==
    <<<<"from", "address">>, <<"to", "address">>, <<"value", "uint256">>,
      <<"validAfter", "uint256">>, <<"validBefore", "uint256">>,
      <<"nonce", "bytes32">>>>
ServiceTypes ==
    <<<<"from", "address">>, <<"to", "address">>, <<"value", "uint256">>,
      <<"validAfter", "uint256">>, <<"validBefore", "uint256">>,
      <<"nonce", "bytes32">>>>
AgentTypes ==
    <<<<"from", "address">>, <<"to", "address">>, <<"value", "uint256">>,
      <<"validAfter", "uint256">>, <<"validBefore", "uint256">>,
      <<"nonce", "bytes32">>>>

\* a || b on strings: the empty (or absent) string is falsy
OrElse(a, b) == IF a # "" THEN a ELSE b

\* the domain X402Service signs under
ServiceDomain(requirements) ==
    [name |-> requirements.extra.name, version |-> requirements.extra.version,
     chainId |-> 1030, verifyingContract |-> requirements.asset]

\* AgentDomain with the chain id of another network
AgentDomain_OtherChain(requirements) ==
    [name |-> OrElse(requirements.extra.name, "USDT0"),
     version |-> OrElse(requirements.extra.version, "1"),
     chainId |-> 1, verifyingContract |-> requirements.asset]

\* the domain the CLI agent signs under (CHAIN_ID = 1030)
AgentDomain(requirements) ==
    [name |-> OrElse(requirements.extra.name, "USDT0"),
     version |-> OrElse(requirements.extra.version, "1"),
     chainId |-> 1030, verifyingContract |-> requirements.asset]

\* the domain the demo-ai helper signs under
DemoDomain(requirements) ==
    LET assetInfo == AssetInfo(toLowerCase(requirements.asset)) IN
    [name |-> OrElse(requirements.extra.name, OrElse(assetInfo.eip712Name, "USDT0")),
     version |-> OrElse(requirements.extra.version, OrElse(assetInfo.eip712Version, "1")),
     chainId |-> CONFIG_chainId, verifyingContract |-> requirements.asset]

\* what the CLI agent and the demo-ai helper sign and send: the wallet's
\* authorization of requirements.amount to requirements.payTo
WalletPayload(domain, requirements, signer, nonce) ==
    LET message == Authorization(Addr(signer, "mixed"), requirements.payTo,
                                 requirements.amount, 0, now + Hour, nonce)
    IN PaymentPayload(2, "exact", "eip155:1030",
                      Sig(signer, Digest(domain, message)), message)

SignedPayload(kind, requirements, signer, nonce) ==
    IF kind = "service" THEN signPayment(requirements, signer, nonce)
    ELSE IF kind = "agent"
         THEN WalletPayload(AgentDomain(requirements), requirements, signer, nonce)
    ELSE WalletPayload(DemoDomain(requirements), requirements, signer, nonce)

\* the requirements of the paid endpoint, and those of a server that leaves
\* out the domain name and version
UnnamedRequirements ==
    PaymentRequirements(Price, USDT0, Treasury, Extra("transfer", "", "", "", ""))

\* a signer signs for the requirements and the payload is posted with them
SignerPost(d, kind, requirements, signer, nonce) ==
    /\ fcall[<<d, "direct">>].pc = "idle"
    /\ fcall' = [fcall EXCEPT ![<<d, "direct">>] =
          Request("verify-transfer", TRUE, TRUE,
                  SignedPayload(kind, requirements, signer, nonce), requirements)]
    /\ UNCHANGED <<now, balance, used, txs, gate, escrowAdapter, x402_api_payments,
                   rateLimitFile, proxy, agent, server, client, walletService, storageService, appKitService>>

NextSign ==
    \/ \E d \in DirectIds, kind \in Signers,
          requirements \in {TransferRequirements, UnnamedRequirements},
          signer \in {"buyer", "attacker"}, nonce \in {"n1", "n3"} :
          SignerPost(d, kind, requirements, signer, nonce)
    \/ \E d \in DirectIds : VerifyStart(<<d, "direct">>) \/ VerifyBalance(<<d, "direct">>)
    \/ Tick

SpecSign == Init /\ [][NextSign]_vars

----------------------------------------------------------------------------
\* The facilitator from the start of its process: clients connect to the
\* loopback address or to the machine's public address

InitStart ==
    /\ now = 1
    /\ balance = [t \in Tokens |-> [a \in Accounts |->
                     IF t = "usdt0" /\ a = "buyer" THEN 2 * Price ELSE 0]]
    /\ used = {}
    /\ txs = [c \in FCallIds |-> NoTx]
    /\ fcall = [c \in FCallIds |-> Idle]
    /\ gate = [g \in GateIds |-> NewGate]
    /\ escrowAdapter \in {Adapter, NoAddr}
    /\ x402_api_payments = <<>>
    /\ rateLimitFile = <<>>
    /\ proxy = [r \in ProxyIds |-> NewProxyRequest]
    /\ agent = [a \in AgentRuns |-> NewAgentRun]
    /\ server \in {Starting(k, a) : k, a \in BOOLEAN}
    /\ client = NewClient(<<TransferRequirements>>)
    /\ walletService = NewWalletService
    /\ storageService = NewStorageService
    /\ appKitService = NewAppKitService

\* a client connects to an address of the machine and posts a request
Connect ==
    \E to \in {"127.0.0.1", "192.0.2.1"} : Accepts(to) /\ Direct

\* the handlers run while the process does
Serve == server.pc = "listening" /\ (Facilitator \/ Demo)

NextStart ==
    \/ ServerInitialize
    \/ ServerGetNetwork
    \/ ServerListen
    \/ ServerSignal
    \/ Connect
    \/ Serve
    \/ Chain

SpecStart == InitStart /\ [][NextStart]_vars

----------------------------------------------------------------------------
\* The client flows on a PAYMENT-REQUIRED array: which entry each of them
\* takes, and what it signs

\* the longest PAYMENT-REQUIRED array
MaxEntries == 2

\* entries a server may list: the two of this repository, and entries for
\* another transfer method, network, scheme or amount
RequirementEntries ==
    {TransferRequirements,
     EscrowRequirements,
     [TransferRequirements EXCEPT !.amount = 3 * Price],
     [EscrowRequirements EXCEPT !.extra.assetTransferMethod = "permit2"],
     [TransferRequirements EXCEPT !.network = "eip155:71"],
     [TransferRequirements EXCEPT !.scheme = "upto"]}

RequirementLists ==
    UNION {[1..n -> RequirementEntries] : n \in 0..MaxEntries}

\* JSON.parse(...)[0] of the agent and of demo-ai: the first entry whatever it
\* says; of an empty array undefined, and reading its fields throws
FirstEntry(requirementsList) ==
    IF requirementsList = <<>> THEN NoRequirements ELSE requirementsList[1]

\* the entry a flow goes on with
SelectedBy(k, requirementsList) ==
    IF k = "service" THEN selectRequirements(requirementsList)
    ELSE FirstEntry(requirementsList)

\* the selection of a flow: without an entry X402Service throws, the agent
\* and demo-ai fail on the first field they read
FlowSelect(k) ==
    /\ client.flow[k].pc = "decoded"
    /\ LET requirements == SelectedBy(k, client.requirementsList) IN
       client' = IF requirements = NoRequirements
                 THEN [client EXCEPT !.flow[k].pc = "failed"]
                 ELSE [client EXCEPT !.flow[k].pc = "selected",
                                     !.flow[k].requirements = requirements]
    /\ UNCHANGED <<now, balance, used, txs, fcall, gate, escrowAdapter,
                   x402_api_payments, rateLimitFile, proxy, agent, server, walletService, storageService, appKitService>>

\* the signature of a flow: the agent and demo-ai first read the wallet's
\* balance of requirements.asset and stop below requirements.amount
FlowSign(k, nonce) ==
    /\ client.flow[k].pc = "selected"
    /\ LET requirements == client.flow[k].requirements IN
       client' = IF k # "service" /\ balance["usdt0"]["buyer"] < requirements.amount
                 THEN [client EXCEPT !.flow[k].pc = "failed"]
                 ELSE [client EXCEPT !.flow[k].pc = "signed",
                          !.flow[k].payload =
                              SignedPayload(k, requirements, "buyer", nonce)]
    /\ UNCHANGED <<now, balance, used, txs, fcall, gate, escrowAdapter,
                   x402_api_payments, rateLimitFile, proxy, agent, server, walletService, storageService, appKitService>>

InitSelect ==
    /\ now = 1
    /\ balance = [t \in Tokens |-> [a \in Accounts |->
                     IF t = "usdt0" /\ a = "buyer" THEN 2 * Price ELSE 0]]
    /\ used = {}
    /\ txs = [c \in FCallIds |-> NoTx]
    /\ fcall = [c \in FCallIds |-> Idle]
    /\ gate = [g \in GateIds |-> NewGate]
    /\ escrowAdapter = Adapter
    /\ x402_api_payments = <<>>
    /\ rateLimitFile = <<>>
    /\ proxy = [r \in ProxyIds |-> NewProxyRequest]
    /\ agent = [a \in AgentRuns |-> NewAgentRun]
    /\ server = Listening
    /\ client \in {NewClient(l) : l \in RequirementLists}
    /\ walletService = NewWalletService
    /\ storageService = NewStorageService
    /\ appKitService = NewAppKitService

NextSelect ==
    \E k \in Signers : FlowSelect(k) \/ \E nonce \in {"n1", "n3"} : FlowSign(k, nonce)

SpecSelect == InitSelect /\ [][NextSelect]_vars

----------------------------------------------------------------------------
\* The facilitator's request listener on requests of any route and body

\* the routes beside the POST endpoints: OPTIONS on any path, GET
\* /x402/health, and every other method and path
OtherRoutes == {"options", "health", "not-found"}

\* bodies at and around the limit, of one-byte characters and with one
\* character of two bytes, of every JSON kind
Bodies ==
    {Body(l[1], l[2], json) :
        l \in {<<2, 2>>, <<MaxBodyLength, MaxBodyLength>>,
               <<MaxBodyLength, MaxBodyLength + 1>>,
               <<MaxBodyLength + 1, MaxBodyLength + 1>>},
        json \in {"object", "null", "scalar", "invalid"}}

\* a caller sends a request with a body
DirectPost(d, route, keyOk, body) ==
    /\ fcall[<<d, "direct">>].pc = "idle"
    /\ fcall' = [fcall EXCEPT ![<<d, "direct">>] =
          IF route \in {"settle", "verify"}
          THEN Post(route, keyOk, body, PayEscrow, EscrowRequirements)
          ELSE Post(route, keyOk, body, PayTransfer, TransferRequirements)]
    /\ UNCHANGED <<now, balance, used, txs, gate, escrowAdapter, x402_api_payments,
                   rateLimitFile, proxy, agent, server, client, walletService, storageService, appKitService>>

\* the listener on the other routes: 200 for OPTIONS, handleHealth (200, or
\* 500 when getBalance throws), 404 for the rest
RouteOther(c) ==
    /\ fcall[c].pc = "recv"
    /\ fcall[c].ep \in OtherRoutes
    /\ \E st \in IF fcall[c].ep = "options" THEN {200}
                 ELSE IF fcall[c].ep = "health" THEN {200, 500} ELSE {404} :
          sendJson(c, Answer(st, FALSE, "", FALSE, "", "", NoAddr))
    /\ UNCHANGED <<now, balance, used, txs, gate, escrowAdapter, x402_api_payments,
                   rateLimitFile, proxy, agent, server, client, walletService, storageService, appKitService>>

NextBody ==
    \/ \E d \in DirectIds, route \in Endpoints \cup OtherRoutes, keyOk \in BOOLEAN,
          body \in Bodies : DirectPost(d, route, keyOk, body)
    \/ \E c \in FCallIds : RouteOther(c)
    \/ Facilitator
    \/ Demo
    \/ Chain

\* every handler that can take a step takes it, and the chain includes the
\* transactions it was sent
FairBody ==
    \A c \in FCallIds :
        /\ WF_vars(RouteOther(c))
        /\ WF_vars(VerifyStart(c))
        /\ WF_vars(VerifyBalance(c))
        /\ WF_vars(VerifySimulate(c))
        /\ WF_vars(SettleStart(c))
        /\ WF_vars(SettleFinish(c))
        /\ WF_vars(DemoAiStart(c))
        /\ WF_vars(DemoAiFinish(c))
        /\ WF_vars(Mine(c))

SpecBody == Init /\ [][NextBody]_vars /\ FairBody

----------------------------------------------------------------------------
\* The wallets of a browser announce themselves and are looked up

NextWallets ==
    \/ \E uuid \in Uuids, wallet \in Wallets : AnnounceProvider(uuid, wallet)
    \/ getFluentProviderEIP6963
    \/ getMetaMaskProviderEIP6963

SpecWallets == Init /\ [][NextWallets]_vars

----------------------------------------------------------------------------
\* The session of a browser is saved, read and cleared as time passes

NextStorage ==
    \/ \E token \in SessionTokens, expiresAt \in ExpiresAts :
          saveSession(token, expiresAt)
    \/ getSessionToken
    \/ clearSession
    \/ Tick

SpecStorage == Init /\ [][NextStorage]_vars

----------------------------------------------------------------------------
\* The page calls initialize(), open(), openNetworks() and getProvider() in
\* any order while the initialization goes on, fails or succeeds

NextAppKit ==
    \/ \E k \in Callers, method \in Methods : Call(k, method)
    \/ \E r \in 1..MaxInitializations, outcome \in Outcomes : doInitialize(r, outcome)
    \/ \E k \in Callers : Resume(k)

SpecAppKit == Init /\ [][NextAppKit]_vars

----------------------------------------------------------------------------
\* A page whose AppKit is initialized connects through WalletConnect, once
\* or twice at a time, while the wallet connects, disconnects, the modal is
\* closed and the timers fire

InitConnect ==
    /\ now = 1
    /\ balance = [t \in Tokens |-> [a \in Accounts |->
                     IF t = "usdt0" /\ a = "buyer" THEN 2 * Price ELSE 0]]
    /\ used = {}
    /\ txs = [c \in FCallIds |-> NoTx]
    /\ fcall = [c \in FCallIds |-> Idle]
    /\ gate = [g \in GateIds |-> NewGate]
    /\ escrowAdapter = Adapter
    /\ x402_api_payments = <<>>
    /\ rateLimitFile = <<>>
    /\ proxy = [r \in ProxyIds |-> NewProxyRequest]
    /\ agent = [a \in AgentRuns |-> NewAgentRun]
    /\ server = Listening
    /\ client = NewClient(<<TransferRequirements>>)
    /\ walletService = NewWalletService
    /\ storageService = NewStorageService
    /\ appKitService = [NewAppKitService EXCEPT
          !.modal = 1, !.isInitialized = TRUE, !.initPromise = 1,
          !.runs = <<[state |-> "fulfilled", modal |-> 1]>>]

NextConnect ==
    \/ \E f \in Flows : connectWalletConnect(f)
    \/ \E f \in Flows : Resume(f)
    \/ \E newAddress \in Addresses \cup {""} : AccountChanged(newAddress)
    \/ ModalClosed
    \/ \E f \in Flows : TimeoutFires(f)
    \/ \E f \in Flows, provider \in Providers : handleConnected_resume(f, provider)

\* timers fire, and the race for the provider ends after 10 seconds at most
FairConnect ==
    \A f \in Flows :
        /\ WF_vars(TimeoutFires(f))
        /\ WF_vars(\E provider \in Providers : handleConnected_resume(f, provider))

SpecConnect == InitConnect /\ [][NextConnect]_vars /\ FairConnect

----------------------------------------------------------------------------
\* Two paid endpoints whose requirements differ in extra.name and
\* extra.version only receive the same payment; each posts it to verify

\* the domain names and versions an endpoint may put into its requirements
ExtraNames == {<<"USDT0", "1">>, <<"CNHT0", "1">>, <<"", "">>}

PairRequirements ==
    {[r EXCEPT !.extra.name = n[1], !.extra.version = n[2]] :
        r \in {TransferRequirements, EscrowRequirements}, n \in ExtraNames}

\* payments signed under the token's domain, and one signed under the name
\* of the other token
PairPayloads ==
    {PayTransfer, PayEscrow, PayForged, PayExpired, PayUnder,
     ExactPayload(SignedBy("buyer", "CNHT0", USDT0, AuthTransfer), AuthTransfer)}

NextPair ==
    \/ \E g \in GateIds, handler \in Handlers, r \in PairRequirements,
          p \in PairPayloads : GateCall(g, handler, r, Header("payload", p))
    \/ \E c \in FCallIds : VerifyStart(c) \/ VerifyBalance(c) \/ VerifySimulate(c)

SpecPair == Init /\ [][NextPair]_vars

----------------------------------------------------------------------------
\* The CLI agent, run several times

NextAgent == Tick \/ \E a \in AgentRuns : AgentFetch(a) \/ AgentSign(a) \/ AgentPay(a)

SpecAgent == Init /\ [][NextAgent]_vars

----------------------------------------------------------------------------
\* Properties

\* the gate returned the settlement to the paid endpoint
Paid(g) == gate[g].pc = "resource" \/ gate[g].paymentResponse # NoResponseHeader

\* the payload the client of gate request g sent
SentPayload(g) == DecodeHeader(gate[g].header)

\* C1: the PAYMENT-RESPONSE header is set and the paid endpoint reached only
\* after the settle call answered success:true, and a settle handler answers
\* success:true only once the transaction it broadcast, carrying the request's
\* authorization and signature, has a successful receipt
C1_PaidOnlyAfterConfirmedSettlement ==
    /\ \A g \in GateIds :
          (Paid(g) \/ gate[g].status = 200) =>
             LET c == <<g, "settle">> IN
             /\ fcall[c].pc = "done"
             /\ fcall[c].answer.success
             /\ gate[g].settleAnswer = fcall[c].answer
             /\ txs[c].status = "success"
             /\ txs[c].authorization = SentPayload(g).payload.authorization
             /\ txs[c].signature = SentPayload(g).payload.signature
    /\ \A c \in FCallIds : fcall[c].answer.success => txs[c].status = "success"

C1_Witness ==
    \E g \in GateIds : gate[g].status = 200 /\ txs[<<g, "settle">>].status = "success"

\* two gate requests carry the same authorization (from, nonce) of one token
SameAuthorization(g, h) ==
    /\ gate[g].header.kind = "payload"
    /\ gate[h].header.kind = "payload"
    /\ SentPayload(g).payload.authorization.from.id
          = SentPayload(h).payload.authorization.from.id
    /\ SentPayload(g).payload.authorization.nonce
          = SentPayload(h).payload.authorization.nonce
    /\ toLowerCase(gate[g].requirements.asset) = toLowerCase(gate[h].requirements.asset)

\* C3: of the gate requests that carry one authorization, at most one is
\* ever handed to the paid endpoint
C3_AtMostOneServedPerAuthorization ==
    \A g, h \in GateIds :
        (g # h /\ SameAuthorization(g, h)) => ~(Paid(g) /\ Paid(h))

C3_Witness ==
    \E g, h \in GateIds :
        /\ g # h
        /\ gate[g].header = gate[h].header
        /\ gate[g].handler = gate[h].handler
        /\ gate[g].status = 200
        /\ gate[h].pc = "done"
        /\ gate[h].error_code = "X402_SETTLE_FAILED"
        /\ txs[<<h, "settle">>].revert = "authorization is used"

\* C10: a 200 answer carries a PAYMENT-RESPONSE header whose decoded payer is
\* the authorization.from of the payload in the request's PAYMENT-SIGNATURE
C10_PayerIsAuthorizationFrom ==
    \A g \in GateIds :
        gate[g].status = 200 =>
           /\ gate[g].paymentResponse # NoResponseHeader
           /\ DecodeBase64Json(gate[g].paymentResponse).payer
                 = SentPayload(g).payload.authorization.from

C10_Witness ==
    \E g \in GateIds :
        /\ gate[g].status = 200
        /\ DecodeBase64Json(gate[g].paymentResponse).payer = Buyer
        /\ DecodeBase64Json(gate[g].paymentResponse).success

\* the verify and the settle call of gate request g
VerifyCall(g) == fcall[<<g, "verify">>]
SettleCall(g) == fcall[<<g, "settle">>]

\* C8: an authorization whose validBefore lies before the time the verify
\* handler reads is never answered valid:true; the verify handler writes
\* nothing to the chain, and the gate makes no settle call for the request
C8_ExpiredIsRefusedWithoutSettle ==
    \A g \in GateIds :
        LET v == VerifyCall(g)
            a == v.payload.payload.authorization
        IN /\ txs[<<g, "verify">>] = NoTx
           /\ v.answer.valid => (v.seenNow \in Times /\ a.validBefore >= v.seenNow)
           /\ (v.pc = "done" /\ a.validBefore < v.seenNow) =>
                 /\ v.answer.status = 200
                 /\ ~v.answer.valid
                 /\ SettleCall(g) = Idle
                 /\ txs[<<g, "settle">>] = NoTx
                 /\ gate[g].pc \in {"verify", "done"}
                 /\ gate[g].status \in {0, 402}

C8_Witness ==
    \E g \in GateIds :
        /\ SentPayload(g) = PayExpired
        /\ VerifyCall(g).answer = VerifyAnswer(200, FALSE, "Authorization expired or not yet valid")
        /\ VerifyCall(g).seenNow > PayExpired.payload.authorization.validBefore
        /\ gate[g].pc = "done"
        /\ gate[g].status = 402
        /\ gate[g].error_code = "X402_VERIFY_FAILED"
        /\ SettleCall(g) = Idle

\* the settle POST of a gate request follows a verify POST of the same
\* payload and requirements that was answered 200 valid:true
SettleOnlyAfterValidVerify ==
    \A g \in GateIds :
        SettleCall(g).pc # "idle" =>
           /\ VerifyCall(g).pc = "done"
           /\ VerifyCall(g).answer = VerifyAnswer(200, TRUE, "")
           /\ gate[g].verifyAnswer = VerifyCall(g).answer
           /\ SettleCall(g).payload = VerifyCall(g).payload
           /\ SettleCall(g).requirements = VerifyCall(g).requirements
           /\ SettleCall(g).ep = SettleEndpoint(gate[g].handler)
           /\ VerifyCall(g).ep = VerifyEndpoint(gate[g].handler)

\* the gate is past its verify call, which did not come back as valid:true
VerifyRefused(g) ==
    /\ gate[g].header.kind = "payload"
    /\ gate[g].pc \notin {"new", "verify"}
    /\ \/ gate[g].verifyAnswer.status \notin {200, 402}
       \/ ~gate[g].verifyAnswer.valid

\* C5: settle is posted only after verify answered valid:true for the same
\* payload and requirements; when verify answers valid:false, a status other
\* than 200/402 or nothing, the gate answers 402 X402_VERIFY_FAILED with the
\* facilitator's reason in the message and posts no settle
C5_VerifyGatesSettleAndReasonIsSurfaced ==
    /\ SettleOnlyAfterValidVerify
    /\ \A g \in GateIds :
          VerifyRefused(g) =>
             /\ gate[g].status = 402
             /\ gate[g].error_code = "X402_VERIFY_FAILED"
             /\ gate[g].message = "Payment verification failed: "
                                     \o OrUnknown(gate[g].verifyAnswer.reason)
             /\ SettleCall(g) = Idle

\* C5, the part the code keeps: a refused verify ends the request with 402
\* X402_VERIFY_FAILED and no settle, the message carrying the reason of an
\* answer that came with status 200 or 402 and "unknown" otherwise
C5_RefusedVerifyEndsRequest ==
    /\ SettleOnlyAfterValidVerify
    /\ \A g \in GateIds :
          VerifyRefused(g) =>
             /\ gate[g].status = 402
             /\ gate[g].error_code = "X402_VERIFY_FAILED"
             /\ gate[g].message = "Payment verification failed: "
                   \o (IF gate[g].verifyAnswer.status \in {200, 402}
                       THEN OrUnknown(gate[g].verifyAnswer.reason) ELSE "unknown")
             /\ SettleCall(g) = Idle

\* the facilitator gave a reason and the gate's message does not carry it
C5_ReasonDropped ==
    \E g \in GateIds :
        /\ VerifyRefused(g)
        /\ gate[g].verifyAnswer = VerifyAnswer(400, FALSE, "Escrow adapter not configured")
        /\ gate[g].message = "Payment verification failed: unknown"

\* the handlers of the settle endpoints that broadcast a transaction
Broadcast(c) == txs[c] # NoTx
Mined(c) == txs[c].status \in {"success", "reverted"}

\* two broadcast transactions carry the same authorization nonce
SameNonce(c, d) ==
    /\ Broadcast(c)
    /\ Broadcast(d)
    /\ toLowerCase(txs[c].token) = toLowerCase(txs[d].token)
    /\ txs[c].authorization.from.id = txs[d].authorization.from.id
    /\ txs[c].authorization.nonce = txs[d].authorization.nonce

\* handler c answers while handler d, whose transaction carries the same
\* nonce and is mined too, still waits
AnswersBeside(c, d) ==
    /\ c # d
    /\ SameNonce(c, d)
    /\ fcall[c].pc = "wait" /\ Mined(c)
    /\ fcall[d].pc = "wait" /\ Mined(d)
    /\ fcall'[c].pc = "done"

\* C4 as stated: of two concurrent settle calls with one nonce exactly one
\* transaction succeeds, and the other call answers success:false with the
\* chain's nonce-used revert reason
C4_ExactlyOneSettles ==
    [][\A c, d \in FCallIds :
          AnswersBeside(c, d) =>
             /\ (txs[c].status = "success") # (txs[d].status = "success")
             /\ fcall'[c].answer.success = (txs[c].status = "success")
             /\ ~fcall'[c].answer.success =>
                   fcall'[c].answer.error = "authorization is used"]_vars

\* C4: of the settle calls that carry one nonce at most one transaction
\* succeeds; a call whose transaction reverted answers 500 success:false with
\* the revert reason the library reports or, when it reports none, the
\* library's message; a nonce-used revert happens only to a consumed nonce
C4_AtMostOneSettles ==
    /\ \A c, d \in FCallIds :
          (c # d /\ SameNonce(c, d)) =>
             ~(txs[c].status = "success" /\ txs[d].status = "success")
    /\ \A c \in FCallIds :
          /\ (fcall[c].pc = "done" /\ txs[c].status = "reverted") =>
                /\ fcall[c].answer.status = 500
                /\ ~fcall[c].answer.success
                /\ fcall[c].answer.error \in {txs[c].revert, WaitError("")}
          /\ (fcall[c].pc = "done" /\ txs[c].status = "success") =>
                fcall[c].answer.success
          /\ txs[c].revert = "authorization is used" =>
                <<toLowerCase(txs[c].token).id, txs[c].authorization.from.id,
                  txs[c].authorization.nonce>> \in used

C4_Witness ==
    \E c, d \in FCallIds :
        /\ c # d
        /\ SameNonce(c, d)
        /\ fcall[c].pc = "done" /\ fcall[c].answer.success
        /\ fcall[d].pc = "done"
        /\ fcall[d].answer = SettleError("authorization is used")

\* the reason the verify handler of the settle endpoint's mode would give the
\* request of handler c, were it run in the current state
VerifyVerdict(c, bal, t) ==
    LET f == fcall[c]
        static == IF f.ep \in {"settle", "verify"}
                  THEN handleVerify_checks(f.payload, f.requirements)
                  ELSE handleVerifyTransfer_checks(f.payload, f.requirements)
    IN IF static # "" THEN static
       ELSE AfterBalance_checks(bal, t, f.payload, f.requirements)

CurrentBalance(c) ==
    balance[toLowerCase(fcall[c].requirements.asset).id]
           [fcall[c].payload.payload.authorization.from.id]

\* C2 as stated: a settle handler broadcasts a transaction only for a payload
\* that passes every verify check, whoever sent the request
C2_NoBroadcastForInvalidPayload ==
    [][\A c \in FCallIds :
          (~Broadcast(c) /\ txs'[c] # NoTx) =>
             VerifyVerdict(c, CurrentBalance(c), now) = ""]_vars

\* C2: a settle handler broadcasts only for a request that carries the API
\* key, and the settle call of a gate request broadcasts only a payload that
\* the verify call of that request found to pass every check
C2_GateBroadcastsOnlyVerifiedPayload ==
    /\ \A c \in FCallIds : Broadcast(c) => fcall[c].keyOk
    /\ \A g \in {"g1"} :
          Broadcast(<<g, "settle">>) =>
             LET v == VerifyCall(g) IN
             /\ v.pc = "done"
             /\ v.answer = VerifyAnswer(200, TRUE, "")
             /\ SettleCall(g).payload = v.payload
             /\ SettleCall(g).requirements = v.requirements
             /\ txs[<<g, "settle">>].authorization = v.payload.payload.authorization
             /\ txs[<<g, "settle">>].signature = v.payload.payload.signature
             /\ VerifyVerdict(<<g, "verify">>, v.seenBalance, v.seenNow) = ""

C2_Witness ==
    /\ txs[<<"g1", "settle">>].status = "pending"
    /\ VerifyCall("g1").answer.valid
    /\ \E d \in DirectIds :
          /\ txs[<<d, "direct">>].status = "pending"
          /\ fcall[<<d, "direct">>].payload = PayForged

----------------------------------------------------------------------------
\* The verify checks, one by one, as predicates of a request

VerifyEndpoints == {"verify", "verify-transfer"}

\* the asset is no key of CONFIG.assets, whatever the spelling of its digits
Unsupported(asset) == \A k \in DOMAIN CONFIG_assets : k.id # asset.id

\* the signature was made with authorization.from's key over the digest of
\* the authorization under the asset's domain
ProducedByFrom(f) ==
    LET a == f.payload.payload.authorization
        sig == f.payload.payload.signature
        asset == AssetInfo(toLowerCase(f.requirements.asset))
    IN /\ sig.wellFormed
       /\ sig.signer = a.from.id
       /\ sig.digest = Digest(AssetDomain(asset, f.requirements.asset), a)

\* check k of request f fails: 1 version, 2 scheme, 3 network, 4 asset,
\* 5 mode, 6 signature, 7 destination, 8 balance, 9 time window, 10 amount
CheckFails(k, f) ==
    LET a == f.payload.payload.authorization IN
    CASE k = 1 -> f.payload.x402Version # 2
      [] k = 2 -> f.payload.scheme # "exact"
      [] k = 3 -> f.payload.network # "eip155:1030"
      [] k = 4 -> Unsupported(f.requirements.asset)
      [] k = 5 -> IF f.ep = "verify"
                  THEN f.requirements.extra.assetTransferMethod # "eip3009"
                  ELSE f.requirements.extra.settlementMode # "transfer"
      [] k = 6 -> ~ProducedByFrom(f)
      [] k = 7 -> IF f.ep = "verify" THEN a.to.id # escrowAdapter.id
                  ELSE a.to.id # f.requirements.payTo.id
      [] k = 8 -> \/ Unsupported(f.requirements.asset)
                  \/ balance[f.requirements.asset.id][a.from.id] < a.value
      [] k = 9 -> ~(a.validAfter <= now /\ now <= a.validBefore)
      [] k = 10 -> a.value < f.requirements.amount

\* the check a reason belongs to; 11 is the escrow simulation, 12 no failure
ReasonRank(reason) ==
    CASE reason = "Unsupported x402 version" -> 1
      [] reason = "Unsupported scheme" -> 2
      [] reason \in {"Wrong network: eip155:1", "Wrong network: eip155:1030"} -> 3
      [] reason = "Unsupported asset" -> 4
      [] reason \in {"Settlement mode must be transfer",
                     "Only eip3009 method supported"} -> 5
      [] reason \in {"Invalid signature", LibSignatureError} -> 6
      [] reason \in {"Wrong payment destination (expected treasury)",
                     "Wrong payment destination"} -> 7
      [] reason \in {"Insufficient balance", LibRpcError} -> 8
      [] reason = "Authorization expired or not yet valid" -> 9
      [] reason = "Insufficient amount" -> 10
      [] reason = "" -> 12
      [] OTHER -> 11

\* the library and RPC calls a handler has made when it answers at check k
CallsUpTo(k, ep) ==
    IF k <= 5 THEN <<>>
    ELSE IF k <= 7 THEN <<"verifyTypedData">>
    ELSE IF k <= 10 \/ (k = 12 /\ ep = "verify-transfer")
         THEN <<"verifyTypedData", "balanceOf">>
    ELSE <<"verifyTypedData", "balanceOf", "staticCall">>

\* the verify requests that were answered after the body was read
Verdicts ==
    {c \in FCallIds : /\ fcall[c].ep \in VerifyEndpoints
                      /\ fcall[c].pc = "done"
                      /\ fcall[c].answer.status = 200}

\* C6: a verify answer carries the reason of the first check that fails in
\* the order version, scheme, network, asset, mode, signature, destination,
\* balance, time window, amount, simulation; every check before it passed and
\* the handler made no library or RPC call that belongs to a later check
C6_FirstFailingCheckAnswers ==
    \A c \in Verdicts :
        LET f == fcall[c]
            k == ReasonRank(f.answer.reason)
        IN /\ f.answer.valid <=> k = 12
           /\ \A j \in 1..10 : j < k => ~CheckFails(j, f)
           /\ (k <= 10 /\ f.answer.reason # LibRpcError) => CheckFails(k, f)
           /\ k = 11 => f.ep = "verify"
           /\ (k = 12 /\ f.ep = "verify") => Reverts(EscrowTx(f)) = {}
           /\ f.did = CallsUpTo(k, f.ep)

C6_Witness ==
    \E c \in Verdicts :
        /\ fcall[c].answer = VerifyAnswer(200, FALSE, "Unsupported scheme")
        /\ ~CheckFails(1, fcall[c])
        /\ CheckFails(3, fcall[c])
        /\ CheckFails(6, fcall[c])
        /\ CheckFails(7, fcall[c])
        /\ CheckFails(10, fcall[c])
        /\ fcall[c].did = <<>>

\* the reason names the signature: the handler's own text, or the message of
\* the library's error for a signature it cannot decode
HasSignatureWord(reason) == reason \in {"Invalid signature", LibSignatureError}

\* C7 as stated: a signature not produced by authorization.from's key is
\* answered valid:false with a reason that contains "signature"
C7_BadSignatureNamedInReason ==
    \A c \in FCallIds :
        (fcall[c].ep \in VerifyEndpoints /\ fcall[c].pc = "done"
            /\ ~ProducedByFrom(fcall[c])) =>
           /\ ~fcall[c].answer.valid
           /\ HasSignatureWord(fcall[c].answer.reason)

\* C7: a signature not produced by authorization.from's key is never answered
\* valid:true; the reason is the signature's when the request is answered
\* after the body was read and the five checks before the recovery pass
C7_BadSignatureNeverValid ==
    \A c \in FCallIds :
        (fcall[c].ep \in VerifyEndpoints /\ fcall[c].pc = "done"
            /\ ~ProducedByFrom(fcall[c])) =>
           /\ ~fcall[c].answer.valid
           /\ (c \in Verdicts /\ \A j \in 1..5 : ~CheckFails(j, fcall[c])) =>
                 fcall[c].answer.reason =
                    IF fcall[c].payload.payload.signature.wellFormed
                    THEN "Invalid signature" ELSE LibSignatureError

C7_Witness ==
    \E c \in Verdicts :
        /\ fcall[c].payload.payload.signature.signer = "attacker"
        /\ fcall[c].payload.payload.authorization.from.id = "buyer"
        /\ fcall[c].answer = VerifyAnswer(200, FALSE, "Invalid signature")
        /\ fcall[c].did = <<"verifyTypedData">>

\* C9: a request whose asset is no key of the configured assets (compared
\* without regard to case) is never answered valid:true and never reaches the
\* balance read; an asset that differs from a key only in case is not refused
C9_UnsupportedAssetNoBalanceRead ==
    \A c \in FCallIds :
        fcall[c].ep \in VerifyEndpoints =>
           /\ Unsupported(fcall[c].requirements.asset) =>
                 /\ ~fcall[c].answer.valid
                 /\ fcall[c].pc \notin {"balanceOf", "staticCall"}
                 /\ \A i \in 1..Len(fcall[c].did) :
                       fcall[c].did[i] \notin {"balanceOf", "staticCall"}
           /\ fcall[c].answer.reason = "Unsupported asset" =>
                 Unsupported(fcall[c].requirements.asset)

C9_Witness ==
    \E c \in Verdicts :
        /\ fcall[c].requirements.asset = Addr("other", "lower")
        /\ fcall[c].answer = VerifyAnswer(200, FALSE, "Unsupported asset")
        /\ ProducedByFrom([fcall[c] EXCEPT !.requirements.asset = USDT0])
        /\ fcall[c].did = <<>>

----------------------------------------------------------------------------
\* The gate's answers to requests it does not take to the facilitator

\* gate request g made no facilitator call and caused no transaction
NoFacilitatorCall(g) ==
    /\ VerifyCall(g) = Idle
    /\ SettleCall(g) = Idle
    /\ txs[<<g, "verify">>] = NoTx
    /\ txs[<<g, "settle">>] = NoTx

\* C11: a gate request without a PAYMENT-SIGNATURE header is answered 402
\* X402_PAYMENT_REQUIRED with a PAYMENT-REQUIRED header that decodes to an
\* array of one element, the requirements, and no facilitator call is made;
\* no other request gets that header
C11_NoHeaderIsAnswered402WithRequirements ==
    \A g \in GateIds :
        /\ (gate[g].handler # "" /\ gate[g].header.kind = "absent") =>
              /\ gate[g].pc = "done"
              /\ gate[g].status = 402
              /\ gate[g].error_code = "X402_PAYMENT_REQUIRED"
              /\ Len(gate[g].paymentRequired) = 1
              /\ gate[g].paymentRequired[1] = gate[g].requirements
              /\ gate[g].requirements \in {TransferRequirements, EscrowRequirements}
              /\ gate[g].paymentResponse = NoResponseHeader
              /\ NoFacilitatorCall(g)
        /\ gate[g].paymentRequired # <<>> => gate[g].header.kind = "absent"

C11_Witness ==
    \E g \in GateIds :
        /\ gate[g].header = NoHeader
        /\ gate[g].handler = "handleTransfer"
        /\ gate[g].status = 402
        /\ gate[g].paymentRequired = <<TransferRequirements>>

\* C12: a PAYMENT-SIGNATURE header that does not decode to a payload object
\* is answered 400 X402_INVALID_PAYLOAD and neither verify nor settle is called
C12_UndecodableHeaderIs400 ==
    \A g \in GateIds :
        (gate[g].pc # "new" /\ gate[g].header.kind \notin {"absent", "payload"}) =>
           /\ gate[g].pc = "done"
           /\ gate[g].status = 400
           /\ gate[g].error_code = "X402_INVALID_PAYLOAD"
           /\ NoFacilitatorCall(g)

\* C12, the part the code keeps: a header whose decoded value PHP holds falsy
\* is answered 400 X402_INVALID_PAYLOAD without a facilitator call, and no
\* header other than a payload object leads to a settle call
C12_FalsyHeaderIs400 ==
    \A g \in GateIds :
        /\ (gate[g].pc # "new" /\ gate[g].header.kind = "garbage") =>
              /\ gate[g].pc = "done"
              /\ gate[g].status = 400
              /\ gate[g].error_code = "X402_INVALID_PAYLOAD"
              /\ NoFacilitatorCall(g)
        /\ gate[g].header.kind # "payload" =>
              SettleCall(g) = Idle /\ txs[<<g, "settle">>] = NoTx

\* a JSON value that is no object went to verify and the gate answered 402
C12_ScalarReachesVerify ==
    \E g \in GateIds :
        /\ gate[g].header.kind = "scalar"
        /\ VerifyCall(g).answer = VerifyAnswer(200, FALSE, "Unsupported x402 version")
        /\ gate[g].status = 402
        /\ gate[g].error_code = "X402_VERIFY_FAILED"

----------------------------------------------------------------------------
\* The facilitator's HTTP statuses

\* C13: an authenticated verify or verify-transfer request with a readable
\* body is answered HTTP 200 with valid and, when not valid, a reason; 400 is
\* answered only to an unreadable body
C13_VerifyAnswers200 ==
    \A c \in FCallIds :
        (fcall[c].ep \in VerifyEndpoints /\ fcall[c].pc = "done" /\ fcall[c].keyOk) =>
           /\ fcall[c].bodyOk =>
                 /\ fcall[c].answer.status = 200
                 /\ fcall[c].answer.valid \/ fcall[c].answer.reason # ""
           /\ fcall[c].answer.status = 400 => ~fcall[c].bodyOk

\* C13, the part the code keeps: verify-transfer, and verify with an escrow
\* adapter configured, answer a readable authenticated request with 200; the
\* only other status is 400, for an unreadable body or a missing adapter
C13_VerifyAnswers200WhenConfigured ==
    \A c \in FCallIds :
        (fcall[c].ep \in VerifyEndpoints /\ fcall[c].pc = "done" /\ fcall[c].keyOk) =>
           /\ fcall[c].answer.status \in {200, 400}
           /\ fcall[c].answer.status = 200 =>
                 fcall[c].answer.valid \/ fcall[c].answer.reason # ""
           /\ fcall[c].answer.status = 400 <=>
                 \/ fcall[c].ep = "verify" /\ escrowAdapter = NoAddr
                 \/ ~fcall[c].bodyOk

\* a readable, authenticated escrow verify request answered with status 400
C13_VerdictWith400 ==
    \E c \in FCallIds :
        /\ fcall[c].ep = "verify"
        /\ fcall[c].keyOk /\ fcall[c].bodyOk
        /\ fcall[c].payload = PayEscrow
        /\ fcall[c].requirements = EscrowRequirements
        /\ fcall[c].answer = VerifyAnswer(400, FALSE, "Escrow adapter not configured")

----------------------------------------------------------------------------
\* The gate after the settle call

\* the gate is past its settle call, which did not come back as success:true
SettleFailed(g) ==
    /\ SettleCall(g) # Idle
    /\ gate[g].pc \notin {"new", "verify", "settle"}
    /\ ~(gate[g].settleAnswer.status \in {200, 402} /\ gate[g].settleAnswer.success)

\* C14: when the settle call fails (success:false after a revert, or no
\* answer) the gate answers 500 X402_SETTLE_FAILED, does not reach the paid
\* endpoint, and its message carries the error the facilitator reported
C14_SettleFailureIs500WithError ==
    \A g \in GateIds :
        SettleFailed(g) =>
           /\ gate[g].pc = "done"
           /\ gate[g].status = 500
           /\ gate[g].error_code = "X402_SETTLE_FAILED"
           /\ ~Paid(g)
           /\ gate[g].message = "Payment settlement failed: "
                                   \o OrUnknown(gate[g].settleAnswer.error)

\* C14, the part the code keeps: a failed settle call ends the request with
\* 500 X402_SETTLE_FAILED before the paid endpoint; the facilitator reports
\* every failure with a status other than 200/402, so the message is always
\* the one for no result
C14_SettleFailureIs500 ==
    \A g \in GateIds :
        SettleFailed(g) =>
           /\ gate[g].pc = "done"
           /\ gate[g].status = 500
           /\ gate[g].error_code = "X402_SETTLE_FAILED"
           /\ ~Paid(g)
           /\ gate[g].settleAnswer.status \notin {200, 402}
           /\ gate[g].settleResult = NullResult
           /\ gate[g].message = "Payment settlement failed: unknown"

\* the facilitator reported the revert reason and the gate's message lacks it
C14_ErrorDropped ==
    \E g \in GateIds :
        /\ SettleFailed(g)
        /\ gate[g].settleAnswer = SettleError("authorization is used")
        /\ gate[g].message = "Payment settlement failed: unknown"

\* C15: a request to an endpoint other than health that lacks the configured
\* key is answered 401 with {error}, whatever its body, and its handler reads
\* no body, makes no RPC or library call and broadcasts nothing
C15_NoKeyIsAnswered401 ==
    \A c \in FCallIds :
        (fcall[c].pc # "idle" /\ ~fcall[c].keyOk) =>
           /\ fcall[c].ep \in Endpoints
           /\ fcall[c].pc \in {"recv", "done"}
           /\ fcall[c].pc = "done" => fcall[c].answer = Unauthorized
           /\ fcall[c].did = <<>>
           /\ fcall[c].seenNow = 0
           /\ txs[c] = NoTx

C15_Witness ==
    \E c \in FCallIds :
        /\ fcall[c].ep = "settle-transfer"
        /\ ~fcall[c].keyOk
        /\ fcall[c].bodyOk
        /\ fcall[c].payload = PayTransfer
        /\ fcall[c].answer = Unauthorized
        /\ txs[c] = NoTx

\* the posts of gate request g to the verify and to the settle endpoints
PostsTo(g, eps) == {i \in 1..Len(gate[g].calls) : gate[g].calls[i] \in eps}

\* C16: one gate request posts at most once to its verify endpoint and, after
\* that, at most once to its settle endpoint; a request whose settle call
\* failed or got no answer has ended with that single settle post
C16_OneVerifyOneSettlePerRequest ==
    \A g \in GateIds :
        LET v == VerifyEndpoint(gate[g].handler)
            st == SettleEndpoint(gate[g].handler)
        IN /\ Cardinality(PostsTo(g, VerifyEndpoints)) <= 1
           /\ Cardinality(PostsTo(g, {"settle", "settle-transfer"})) <= 1
           /\ gate[g].calls \in {<<>>, <<v>>, <<v, st>>}
           /\ gate[g].calls # <<>> <=> VerifyCall(g) # Idle
           /\ Len(gate[g].calls) = 2 <=> SettleCall(g) # Idle
           /\ SettleFailed(g) => (gate[g].pc = "done" /\ gate[g].calls = <<v, st>>)

C16_Witness ==
    \E g \in GateIds :
        /\ SettleFailed(g)
        /\ gate[g].settleAnswer = NoAnswer
        /\ gate[g].status = 500
        /\ gate[g].calls = <<"verify-transfer", "settle-transfer">>
        /\ txs[<<g, "settle">>].status = "success"

----------------------------------------------------------------------------
\* Replay of a settled payment

\* an answer that reports a failed RPC call, or no answer at all
NoService(answer) ==
    \/ answer.status = 0
    \/ answer.reason \in {LibRpcError, "Settlement simulation failed: " \o LibRpcError}
    \/ answer.error = LibRpcError

\* gate request g replayed a settled payment and has ended; the facilitator
\* and the node answered every call, the authorization is still inside its
\* validity window and the payer's balance still covers it
ReplayEnded(g) ==
    LET a == SentPayload(g).payload.authorization IN
    /\ gate[g].replay
    /\ gate[g].pc = "done"
    /\ ~NoService(gate[g].verifyAnswer)
    /\ SettleCall(g) # Idle => ~NoService(gate[g].settleAnswer)
    /\ a.validAfter < now /\ now < a.validBefore
    /\ balance[toLowerCase(gate[g].requirements.asset).id][a.from.id] >= a.value

\* the replay passed verify, its transaction reverted on the consumed nonce
\* and the gate answered 500 X402_SETTLE_FAILED without serving
ReplayFailsAtSettle(g) ==
    /\ VerifyCall(g).answer = VerifyAnswer(200, TRUE, "")
    /\ txs[<<g, "settle">>].status = "reverted"
    /\ txs[<<g, "settle">>].revert = "authorization is used"
    /\ gate[g].status = 500
    /\ gate[g].error_code = "X402_SETTLE_FAILED"
    /\ ~Paid(g)

\* C17 as stated: a replayed settled payment passes verify, reverts at settle
\* on the consumed nonce and is answered 500 X402_SETTLE_FAILED
C17_ReplayFailsAtSettle ==
    \A g \in GateIds : ReplayEnded(g) => ReplayFailsAtSettle(g)

\* C17: in transfer mode a replayed settled payment passes verify, reverts at
\* settle on the consumed nonce and is answered 500 X402_SETTLE_FAILED; in
\* escrow mode the simulation of verify already reverts on the consumed nonce
\* and the replay is answered 402 X402_VERIFY_FAILED without a transaction;
\* in neither mode is the resource served
C17_ReplayIsNeverServed ==
    \A g \in GateIds :
        /\ gate[g].replay => ~Paid(g) /\ gate[g].status # 200
        /\ (ReplayEnded(g) /\ gate[g].handler = "handleTransfer") =>
              ReplayFailsAtSettle(g)
        /\ (ReplayEnded(g) /\ gate[g].handler = "handle") =>
              /\ VerifyCall(g).answer = VerifyAnswer(200, FALSE,
                    "Settlement simulation failed: authorization is used")
              /\ gate[g].status = 402
              /\ gate[g].error_code = "X402_VERIFY_FAILED"
              /\ SettleCall(g) = Idle
              /\ txs[<<g, "settle">>] = NoTx

C17_Witness ==
    \E g \in GateIds :
        /\ ReplayEnded(g)
        /\ gate[g].handler = "handleTransfer"
        /\ ReplayFailsAtSettle(g)
        /\ gate[g].message = "Payment settlement failed: unknown"

----------------------------------------------------------------------------
\* The happy path in transfer mode

\* the client's retry has been sent
Retried == gate["g2"].pc # "new"

\* the retry ended with 200 and a PAYMENT-RESPONSE naming the buyer
Delivered ==
    /\ gate["g2"].pc = "done"
    /\ gate["g2"].status = 200
    /\ DecodeBase64Json(gate["g2"].paymentResponse).success
    /\ DecodeBase64Json(gate["g2"].paymentResponse).payer = Buyer
    /\ DecodeBase64Json(gate["g2"].paymentResponse).transaction # ""

\* the facilitator or the node failed to answer one of the retry's calls
ServiceFailed ==
    \/ gate["g2"].pc \notin {"new", "verify"} /\ NoService(gate["g2"].verifyAnswer)
    \/ /\ gate["g2"].pc \notin {"new", "verify", "settle"}
       /\ SettleCall("g2") # Idle
       /\ NoService(gate["g2"].settleAnswer)

\* the payment was settled and the paid endpoint itself failed
ResourceFailed ==
    /\ gate["g2"].pc = "done"
    /\ gate["g2"].status \in {502, 503}
    /\ DecodeBase64Json(gate["g2"].paymentResponse).success
    /\ txs[<<"g2", "settle">>].status = "success"

\* C18 as stated: once the buyer has retried with a signed payment, the
\* retry ends with 200 and the receipt unless the facilitator or the node
\* fails to answer
C18_HappyPathEndsWith200 == Retried ~> (Delivered \/ ServiceFailed)

\* C18: once the buyer has retried with a signed payment, the retry ends with
\* 200 and the receipt, unless the facilitator or the node fails to answer or
\* the paid endpoint itself fails after the settlement
C18_HappyPathSettles == Retried ~> (Delivered \/ ServiceFailed \/ ResourceFailed)

C18_Witness ==
    /\ gate["g1"].status = 402
    /\ gate["g1"].paymentRequired = <<TransferRequirements>>
    /\ SentPayload("g2").payload.authorization.nonce = "n3"
    /\ Delivered
    /\ balance["usdt0"]["treasury"] = Price

----------------------------------------------------------------------------
\* Underpayment

\* the authorization of verify request f is for less than the required amount
Underpaid(f) ==
    /\ f.ep \in VerifyEndpoints
    /\ f.bodyOk
    /\ f.payload.payload.authorization.value < f.requirements.amount

\* the handler of f answered, and every check before the amount check passed
\* on what the handler read
EarlierChecksPass(f) ==
    LET a == f.payload.payload.authorization IN
    /\ f.pc = "done"
    /\ \A j \in 1..7 : ~CheckFails(j, f)
    /\ f.answer.reason # LibRpcError
    /\ f.seenBalance >= a.value
    /\ a.validAfter <= f.seenNow /\ f.seenNow <= a.validBefore

\* C19: a verify request whose authorization is for less than the required
\* amount is never answered valid:true; when every earlier check passes the
\* answer is valid:false "Insufficient amount"; the gate ends the request with
\* 402 X402_VERIFY_FAILED, makes no settle call, and no transaction is sent
C19_UnderpaymentIsRefused ==
    \A g \in GateIds :
        LET v == VerifyCall(g) IN
        Underpaid(v) =>
            /\ ~v.answer.valid
            /\ EarlierChecksPass(v) =>
                  v.answer = VerifyAnswer(200, FALSE, "Insufficient amount")
            /\ SettleCall(g) = Idle
            /\ txs[<<g, "verify">>] = NoTx /\ txs[<<g, "settle">>] = NoTx
            /\ gate[g].pc \in {"verify", "done"}
            /\ gate[g].pc = "done" =>
                  /\ gate[g].status = 402
                  /\ gate[g].error_code = "X402_VERIFY_FAILED"
                  /\ gate[g].paymentResponse = NoResponseHeader

C19_Witness ==
    \E g \in GateIds :
        /\ gate[g].handler = "handle"
        /\ Underpaid(VerifyCall(g))
        /\ EarlierChecksPass(VerifyCall(g))
        /\ VerifyCall(g).answer.reason = "Insufficient amount"
        /\ gate[g].pc = "done"
        /\ gate[g].status = 402
        /\ gate[g].message = "Payment verification failed: Insufficient amount"

----------------------------------------------------------------------------
\* The destination of the authorization

\* the address verify request f must pay: the configured adapter in escrow
\* mode, requirements.payTo in transfer mode
ExpectedDestination(f) ==
    IF f.ep = "verify" THEN escrowAdapter ELSE f.requirements.payTo

\* authorization.to of f is another account than the expected one
WrongDestination(f) ==
    f.payload.payload.authorization.to.id # ExpectedDestination(f).id

WrongDestinationReasons ==
    {"Wrong payment destination", "Wrong payment destination (expected treasury)"}

\* C20 as stated: an authorization to another address than the expected one
\* is answered valid:false with a wrong-destination reason
C20_WrongDestinationNamedInReason ==
    \A c \in Verdicts :
        WrongDestination(fcall[c]) =>
           /\ ~fcall[c].answer.valid
           /\ fcall[c].answer.reason \in WrongDestinationReasons

\* C20: verify-transfer answers valid:true only if authorization.to is
\* requirements.payTo, and verify only if it is the configured adapter, the
\* addresses compared without regard to case; a wrong-destination reason is
\* given only for another address, and it is the answer whenever the version,
\* scheme, network, asset, mode and signature checks pass
C20_ValidOnlyForExpectedDestination ==
    \A c \in Verdicts :
        LET f == fcall[c] IN
        /\ f.answer.valid => ~WrongDestination(f)
        /\ f.answer.reason \in WrongDestinationReasons =>
              WrongDestination(f) /\ ~f.answer.valid
        /\ (WrongDestination(f) /\ \A j \in 1..6 : ~CheckFails(j, f)) =>
              /\ f.answer.reason =
                    IF f.ep = "verify" THEN "Wrong payment destination"
                    ELSE "Wrong payment destination (expected treasury)"
              /\ f.did = <<"verifyTypedData">>

C20_Witness ==
    \E c \in Verdicts :
        /\ fcall[c].ep = "verify-transfer"
        /\ fcall[c].requirements.payTo = Treasury
        /\ fcall[c].payload.payload.authorization.to = toLowerCase(Adapter)
        /\ ProducedByFrom(fcall[c])
        /\ fcall[c].answer =
              VerifyAnswer(200, FALSE, "Wrong payment destination (expected treasury)")

----------------------------------------------------------------------------
\* The time window

\* verify request f was answered on a balance read, and every check before
\* the time window passed
ReachedWindowCheck(f) ==
    /\ \A j \in 1..7 : ~CheckFails(j, f)
    /\ f.answer.reason # LibRpcError
    /\ f.seenBalance >= f.payload.payload.authorization.value

WindowReason == "Authorization expired or not yet valid"

\* C21: with the earlier checks passing, verify and verify-transfer refuse
\* the time window, with "Authorization expired or not yet valid", exactly
\* when the time read is before validAfter or after validBefore; both ends
\* are accepted, and verify-transfer answers valid:true there when the amount
\* suffices
C21_WindowIsInclusive ==
    \A c \in Verdicts :
        LET f == fcall[c]
            a == f.payload.payload.authorization
            inside == a.validAfter <= f.seenNow /\ f.seenNow <= a.validBefore
        IN /\ f.answer.reason = WindowReason => ReachedWindowCheck(f) /\ ~inside
           /\ (ReachedWindowCheck(f) /\ ~inside) =>
                 f.answer = VerifyAnswer(200, FALSE, WindowReason)
           /\ (ReachedWindowCheck(f) /\ inside /\ ~CheckFails(10, f)
                 /\ f.ep = "verify-transfer") => f.answer.valid
           /\ (ReachedWindowCheck(f) /\ inside /\ f.ep = "verify") =>
                 ReasonRank(f.answer.reason) >= 10

\* the time read is both validAfter and validBefore, and the answer is valid
C21_Witness ==
    \E c \in Verdicts :
        /\ fcall[c].ep = "verify-transfer"
        /\ fcall[c].payload.payload.authorization.validAfter = fcall[c].seenNow
        /\ fcall[c].payload.payload.authorization.validBefore = fcall[c].seenNow
        /\ fcall[c].answer.valid

----------------------------------------------------------------------------
\* The facilitator relays the buyer's authorization

\* the settle requests whose transaction was broadcast
Relayed == {c \in FCallIds : txs[c] # NoTx}

\* the transaction of c carries field for field what the request's payload
\* holds, the recipient aside
CarriesAuthorization(c) ==
    LET a == fcall[c].payload.payload.authorization
        args == Arguments(txs[c])
    IN /\ args.from = a.from
       /\ args.value = a.value
       /\ args.validAfter = a.validAfter
       /\ args.validBefore = a.validBefore
       /\ args.nonce = a.nonce
       /\ args.signature = fcall[c].payload.payload.signature

\* C22 as stated: every transaction settle or settle-transfer broadcasts
\* carries the from, to, value, validAfter, validBefore, nonce and signature
\* of the request's payload
C22_TransactionCarriesWholeAuthorization ==
    \A c \in Relayed :
        /\ CarriesAuthorization(c)
        /\ Arguments(txs[c]).to = fcall[c].payload.payload.authorization.to

\* C22: every transaction settle or settle-transfer broadcasts carries the
\* from, value, validAfter, validBefore, nonce and signature of the request's
\* payload unaltered; settle-transfer also carries its to; settle passes no
\* recipient, the asset and order id of the requirements instead, and the
\* token is asked to pay the adapter the transaction is sent to
C22_TransactionRelaysAuthorization ==
    \A c \in Relayed :
        /\ fcall[c].ep \in {"settle", "settle-transfer"}
        /\ CarriesAuthorization(c)
        /\ fcall[c].ep = "settle-transfer" =>
              /\ txs[c].method = "transferWithAuthorization"
              /\ Arguments(txs[c]).to = fcall[c].payload.payload.authorization.to
              /\ txs[c].to = fcall[c].requirements.asset
              /\ TokenMessage(txs[c]) = fcall[c].payload.payload.authorization
        /\ fcall[c].ep = "settle" =>
              /\ txs[c].method = "settlePayment"
              /\ Arguments(txs[c]).to = NoAddr
              /\ Arguments(txs[c]).token = fcall[c].requirements.asset
              /\ Arguments(txs[c]).orderId = fcall[c].requirements.extra.orderId
              /\ txs[c].to = escrowAdapter
              /\ TokenMessage(txs[c]).to = escrowAdapter

\* settle broadcast a transaction for a payload made out to the treasury: the
\* token is asked to pay the adapter
C22_Witness ==
    \E c \in Relayed :
        /\ fcall[c].ep = "settle"
        /\ fcall[c].payload.payload.authorization.to = Treasury
        /\ Mined(c)
        /\ TokenMessage(txs[c]).to = Adapter
        /\ txs[c].signature = fcall[c].payload.payload.signature

----------------------------------------------------------------------------
\* The endpoints a gate request posts to

\* the endpoint pair of a settlement mode
EndpointsOfMode(mode) ==
    IF mode = "transfer" THEN <<"verify-transfer", "settle-transfer">>
    ELSE <<"verify", "settle">>

\* calls is the pair, or its first endpoint, or nothing
PrefixOf(calls, pair) ==
    /\ Len(calls) <= Len(pair)
    /\ \A i \in 1..Len(calls) : calls[i] = pair[i]

\* C23 as stated: a gate request posts to the verify and settle endpoints of
\* the mode its requirements are tagged with, in this order
C23_EndpointsFollowSettlementMode ==
    \A g \in GateIds :
        gate[g].pc # "new" =>
            PrefixOf(gate[g].calls,
                     EndpointsOfMode(gate[g].requirements.extra.settlementMode))

\* C23: a gate request posts to the endpoints of the handler that was called,
\* handleTransfer to verify-transfer then settle-transfer and handle to verify
\* then settle, whatever the tag of its requirements; verify and settle of
\* one request are of the same mode
C23_EndpointsFollowHandler ==
    \A g \in GateIds :
        gate[g].pc # "new" =>
            PrefixOf(gate[g].calls,
                     IF gate[g].handler = "handleTransfer"
                     THEN EndpointsOfMode("transfer") ELSE EndpointsOfMode("escrow"))

\* requirements tagged transfer were posted to the escrow verify endpoint
C23_TransferTagPostedToVerify ==
    \E g \in GateIds :
        /\ gate[g].requirements.extra.settlementMode = "transfer"
        /\ gate[g].calls = <<"verify">>
        /\ VerifyCall(g).ep = "verify"
        /\ VerifyCall(g).requirements.extra.settlementMode = "transfer"
        /\ gate[g].pc = "done"

----------------------------------------------------------------------------
\* The payment log

\* the rows of the table that hold transaction hash h
RowsOf(h) ==
    {i \in 1..Len(x402_api_payments) : x402_api_payments[i].tx_hash = h}

\* C24: a request whose settlement and AI answer succeeded and whose payment
\* row could not be written is answered 200 all the same, with the answer and
\* the PAYMENT-RESPONSE header of its settlement; the failure leaves no row
C24_LogFailureKeepsResponse ==
    \A g \in GateIds :
        gate[g].logError =>
            /\ gate[g].pc = "done"
            /\ gate[g].status = 200
            /\ gate[g].error_code = ""
            /\ gate[g].message = "Success"
            /\ gate[g].settleResult.json.success
            /\ gate[g].paymentResponse = Base64Json(gate[g].settleResult.json)
            /\ txs[<<g, "settle">>].status = "success"
            /\ RowsOf(gate[g].settleResult.json.transaction) = {}

C24_Witness ==
    \E g \in GateIds :
        /\ gate[g].logError
        /\ gate[g].status = 200
        /\ DecodeBase64Json(gate[g].paymentResponse).payer = Buyer
        /\ x402_api_payments = <<>>

\* the rows that hold the settlement of gate request g
RowsOfRequest(g) ==
    {i \in 1..Len(x402_api_payments) :
        /\ x402_api_payments[i].tx_hash = gate[g].settleResult.json.transaction
        /\ x402_api_payments[i].payer_address = gate[g].settleResult.json.payer}

\* the settle call of g answered success:true
Settled(g) == gate[g].settleResult.json.success

\* every row is the row of a settled request, and no request has two
RowsOnlyForSettled ==
    /\ \A i \in 1..Len(x402_api_payments) :
          \E g \in GateIds : Settled(g) /\ i \in RowsOfRequest(g)
    /\ \A g \in GateIds :
          /\ Cardinality(RowsOfRequest(g)) <= 1
          /\ ~Settled(g) => RowsOfRequest(g) = {}

\* C25: a request whose settle succeeded eventually has exactly one row with
\* its payer and transaction hash, unless the insert failed; a request whose
\* settle did not succeed has none
C25_SettledPaymentIsLogged ==
    /\ []RowsOnlyForSettled
    /\ \A g \in GateIds :
          Settled(g) ~> (Cardinality(RowsOfRequest(g)) = 1 \/ gate[g].logError)

\* the payment of a request was settled, the AI call failed, and the request
\* ended without a row
C25_SettledWithoutRow ==
    \E g \in GateIds :
        /\ Settled(g)
        /\ txs[<<g, "settle">>].status = "success"
        /\ gate[g].pc = "done"
        /\ gate[g].status \in {502, 503}
        /\ ~gate[g].logError
        /\ x402_api_payments = <<>>

----------------------------------------------------------------------------
\* The rate limit of the demo proxy

\* the requests that passed the limit at a time in [w, w + RateWindow)
AdmittedIn(w) ==
    {r \in ProxyIds : /\ proxy[r].admittedAt # 0
                      /\ w <= proxy[r].admittedAt
                      /\ proxy[r].admittedAt < w + RateWindow}

\* C26 as stated: no more than five requests of one IP pass the limit within
\* 60 seconds, and a request answered 429 has not gone on to the facilitator
C26_AtMostFivePerWindow ==
    /\ \A w \in Times : Cardinality(AdmittedIn(w)) <= RateLimit
    /\ \A r \in ProxyIds : proxy[r].status = 429 => proxy[r].admittedAt = 0

\* six requests of one IP passed the limit within the same 60 seconds, two
\* of them having read the file before either wrote it
C26_SixAdmitted ==
    /\ Cardinality(AdmittedIn(1)) > RateLimit
    /\ \A r \in AdmittedIn(1) : proxy[r].status = 1
    /\ Len(rateLimitFile) <= RateLimit

----------------------------------------------------------------------------
\* The spending of the CLI agent

\* what runs 1..n have paid
RECURSIVE totalSpent(_)
totalSpent(n) ==
    IF n = 0 THEN 0
    ELSE totalSpent(n - 1) + (IF agent[n].status = 200 THEN agent[n].signed ELSE 0)

\* C27 as stated: the agent signs no payment that would take what it has
\* spent above AGENT_SPEND_CAP
C27_SpendingStaysUnderCap ==
    \A a \in AgentRuns :
        agent[a].signed # 0 =>
            totalSpent(a - 1) + agent[a].signed <= AGENT_SPEND_CAP

\* the agent has paid more than the cap
C27_CapExceeded ==
    /\ totalSpent(NumAgentRuns) > AGENT_SPEND_CAP
    /\ balance["usdt0"]["treasury"] = totalSpent(NumAgentRuns)
    /\ \E a \in AgentRuns : agent[a].status = 200 /\ agent[a].signed > AGENT_SPEND_CAP

----------------------------------------------------------------------------
\* The signers and the facilitator agree on the typed data

\* the domain verify-transfer recovers the signer under
FacilitatorDomain(requirements) ==
    AssetDomain(AssetInfo(AssetKey(requirements.asset)), requirements.asset)

\* the verify-transfer requests for the paid endpoint's requirements that got
\* as far as the recovery of the signer
RecoveredForEndpoint ==
    {c \in Verdicts : /\ fcall[c].requirements = TransferRequirements
                      /\ fcall[c].did # <<>>}

\* C28: for the requirements of the paid endpoint X402Service, the CLI agent
\* and the demo-ai helper sign under the domain verify uses (name, version,
\* chain id 1030, verifyingContract the asset) and over the same field list,
\* and what any of them signed recovers to the signer's address in verify
C28_SignersAgreeWithVerify ==
    /\ ServiceTypes = TRANSFER_AUTH_TYPES /\ AgentTypes = TRANSFER_AUTH_TYPES
    /\ ServiceDomain(TransferRequirements) = FacilitatorDomain(TransferRequirements)
    /\ AgentDomain(TransferRequirements) = FacilitatorDomain(TransferRequirements)
    /\ DemoDomain(TransferRequirements) = FacilitatorDomain(TransferRequirements)
    /\ FacilitatorDomain(TransferRequirements).chainId = 1030
    /\ FacilitatorDomain(TransferRequirements).verifyingContract = TransferRequirements.asset
    /\ \A c \in RecoveredForEndpoint :
          LET f == fcall[c]
              a == f.payload.payload.authorization
          IN /\ ~SignerMismatch(verifyTypedData(FacilitatorDomain(f.requirements), a,
                                                f.payload.payload.signature), a.from)
             /\ ReasonRank(f.answer.reason) > 6

\* verify-transfer accepted what the CLI agent signed with the buyer's key
C28_Witness ==
    \E c \in RecoveredForEndpoint, t \in Times :
        /\ fcall[c].payload.payload.signature =
              Sig("buyer", Digest(AgentDomain(TransferRequirements),
                                  fcall[c].payload.payload.authorization))
        /\ fcall[c].payload.payload.authorization.validBefore = t + Hour
        /\ fcall[c].answer.valid

----------------------------------------------------------------------------
\* The start of the facilitator

\* a request has been accepted
SomeRequest == \E c \in FCallIds : fcall[c] # Idle

\* C29: the facilitator listens on 127.0.0.1 only and only once initialize()
\* has returned true, which takes both keys and an answer to the network
\* query; no request is accepted before, none on another address, and none at
\* all by a process whose initialization failed
C29_ListensOnLoopbackAfterInitialize ==
    /\ server.pc = "listening" =>
          /\ server.host = "127.0.0.1"
          /\ server.initialized
    /\ server.initialized => server.PRIVATE_KEY /\ server.API_KEY
    /\ ~Accepts("192.0.2.1")
    /\ SomeRequest => server.initialized /\ server.host = "127.0.0.1"
    /\ (server.pc = "exited" /\ ~server.initialized) => ~SomeRequest

\* a request was accepted and answered 200 by the process listening on the
\* loopback address
C29_Witness ==
    /\ server.pc = "listening"
    /\ server.host = "127.0.0.1"
    /\ \E c \in FCallIds : fcall[c].pc = "done" /\ fcall[c].answer.status = 200

----------------------------------------------------------------------------
\* The selection of the requirements

\* an entry a client of this scheme can pay
Compatible(r) ==
    /\ r.scheme = "exact"
    /\ r.network = "eip155:1030"
    /\ (r.extra.settlementMode = "transfer"
        \/ r.extra.assetTransferMethod = "eip3009")

\* the positions of the compatible entries of a list
CompatibleAt(requirementsList) ==
    {i \in 1..Len(requirementsList) : Compatible(requirementsList[i])}

\* a flow has gone on with the first compatible entry of the decoded array
PicksFirstCompatible(k) ==
    LET l == client.requirementsList
        f == client.flow[k]
    IN /\ f.pc \in {"selected", "signed"} =>
             \E i \in CompatibleAt(l) :
                /\ f.requirements = l[i]
                /\ \A j \in CompatibleAt(l) : i <= j
       /\ CompatibleAt(l) = {} => f.payload = NoPayload

\* C30: every client flow goes on with the first entry of the decoded
\* PAYMENT-REQUIRED array that has scheme exact, the network of the client and
\* settlementMode transfer or assetTransferMethod eip3009, skipping the entries
\* before it; without such an entry it signs nothing
C30_EveryFlowPicksFirstCompatible ==
    \A k \in Signers : PicksFirstCompatible(k)

\* the part of C30 that is about X402Service alone
ServicePicksFirstCompatible == PicksFirstCompatible("service")

\* the agent has signed for the first entry of an array in which only the
\* second is compatible
C30_AgentSignsFirstEntry ==
    /\ Len(client.requirementsList) = 2
    /\ CompatibleAt(client.requirementsList) = {2}
    /\ client.flow["agent"].pc = "signed"
    /\ client.flow["agent"].requirements = client.requirementsList[1]
    /\ client.flow["agent"].payload.payload.authorization.value
          = client.requirementsList[1].amount

----------------------------------------------------------------------------
\* The request body

\* a handler has taken up the request
Handled(c) == fcall[c].pc \notin {"idle", "recv"}

\* the handler refused the request before any check, call or transaction
RefusedAsBadBody(c) ==
    /\ fcall[c].pc = "done"
    /\ fcall[c].answer.status = 400
    /\ fcall[c].did = <<>>
    /\ txs[c] = NoTx

\* C31: on every POST endpoint a request whose body is longer than 1,048,576
\* bytes is answered 400 with no verify check, no RPC call and no transaction;
\* a body of exactly 1,048,576 bytes that parses is not refused
C31_LargeBodyRefused ==
    \A c \in FCallIds :
        (Handled(c) /\ fcall[c].ep \in Endpoints) =>
            /\ fcall[c].body.bytes > MaxBodyLength => RefusedAsBadBody(c)
            /\ (/\ fcall[c].body.bytes = MaxBodyLength
                /\ fcall[c].body.json # "invalid"
                /\ fcall[c].keyOk
                /\ ~(fcall[c].ep \in {"verify", "settle"} /\ escrowAdapter = NoAddr))
               => ~RefusedAsBadBody(c)

\* a settle-transfer request whose body is longer than 1,048,576 bytes has had
\* its transaction broadcast
C31_LargeBodySettled ==
    \E c \in FCallIds :
        /\ fcall[c].ep = "settle-transfer"
        /\ fcall[c].body.bytes > MaxBodyLength
        /\ txs[c] # NoTx

\* C35: every request the facilitator receives is answered, whatever its
\* method, path and body
C35_EveryRequestAnswered ==
    \A c \in FCallIds : (fcall[c].pc = "recv") ~> (fcall[c].pc = "done")

\* the handler of an authenticated POST whose body is the JSON value null has
\* thrown before its try block: no answer was or will be sent
C35_NullBodyUnanswered ==
    \E c \in FCallIds :
        /\ fcall[c].pc = "thrown"
        /\ fcall[c].keyOk
        /\ fcall[c].body.json = "null"
        /\ fcall[c].answer = NoAnswer

----------------------------------------------------------------------------
\* The provider lookups

\* the strings the Fluent lookup is said to go by: fluent or conflux in the
\* name or the rdns, whatever the case
NamedFluent(w) ==
    \E str \in {lowerCase(w.name), lowerCase(w.rdns)} :
        \/ includes(str, <<"f", "l", "u", "e", "n", "t">>)
        \/ includes(str, <<"c", "o", "n", "f", "l", "u", "x">>)

\* the position of what a lookup returned among the providers it went
\* through, 0 for null
ReturnedAt(l) ==
    IF l.returned = NoProvider THEN 0
    ELSE CHOOSE i \in 1..Len(l.providers) : l.providers[i] = l.returned

\* what a lookup returned is null or one of the providers it went through
ReturnsAnnounced(l) ==
    l.returned = NoProvider \/ \E i \in 1..Len(l.providers) : l.providers[i] = l.returned

\* C32: the MetaMask lookup returns the first announced provider whose rdns
\* is exactly io.metamask and null without one; the Fluent lookup passes over
\* no provider whose name or rdns contains fluent or conflux in any case, and
\* returns null only when no announced provider has such a name or rdns
C32_LookupsReturnFirstMatch ==
    LET l == walletService.lookup
        n == Len(l.providers)
        last == IF ReturnedAt(l) = 0 THEN n ELSE ReturnedAt(l) - 1
    IN /\ ReturnsAnnounced(l)
       /\ l.of = "metamask" =>
             /\ \A i \in 1..last : l.providers[i].wallet.rdns # <<"i", "o", ".", "m", "e", "t", "a", "m", "a", "s", "k">>
             /\ l.returned # NoProvider => l.returned.wallet.rdns = <<"i", "o", ".", "m", "e", "t", "a", "m", "a", "s", "k">>
       /\ l.of = "fluent" =>
             \A i \in 1..last : ~NamedFluent(l.providers[i].wallet)

\* the part of C32 that is about the MetaMask lookup
MetaMaskLookupIsStrict ==
    LET l == walletService.lookup
        last == IF ReturnedAt(l) = 0 THEN Len(l.providers) ELSE ReturnedAt(l) - 1
    IN l.of = "metamask" =>
          /\ ReturnsAnnounced(l)
          /\ \A i \in 1..last : l.providers[i].wallet.rdns # <<"i", "o", ".", "m", "e", "t", "a", "m", "a", "s", "k">>
          /\ l.returned # NoProvider => l.returned.wallet.rdns = <<"i", "o", ".", "m", "e", "t", "a", "m", "a", "s", "k">>

\* the Fluent lookup returned null although a wallet named Conflux had
\* announced itself
C32_ConfluxNameNotFound ==
    LET l == walletService.lookup IN
    /\ l.of = "fluent"
    /\ l.returned = NoProvider
    /\ \E i \in 1..Len(l.providers) :
          includes(lowerCase(l.providers[i].wallet.name), <<"c", "o", "n", "f", "l", "u", "x">>)

----------------------------------------------------------------------------
\* The settlement simulation of escrow verify

\* the ten checks before the simulation found nothing, on the balance and at
\* the time the handler read
OffChainChecksPassed(f) ==
    /\ handleVerify_checks(f.payload, f.requirements) = ""
    /\ AfterBalance_checks(f.seenBalance, f.seenNow, f.payload, f.requirements) = ""

\* the step of an escrow verify request from the static call to its answer
Simulated(c) ==
    /\ fcall[c].ep = "verify"
    /\ fcall[c].pc = "staticCall"
    /\ fcall'[c].pc = "done"

\* C33: escrow verify answers valid:true only when the static call of
\* settlePayment did not revert; the static call is made only after the ten
\* checks before it passed; when it reverts the answer is valid:false and its
\* reason carries the revert reason
C33_SimulationGatesEscrowVerify ==
    /\ [](\A c \in FCallIds :
            /\ (fcall[c].ep = "verify" /\ fcall[c].pc = "done" /\ fcall[c].answer.valid)
                  => fcall[c].did = <<"verifyTypedData", "balanceOf", "staticCall">>
            /\ (fcall[c].pc = "staticCall"
                \/ \E i \in 1..Len(fcall[c].did) : fcall[c].did[i] = "staticCall")
                  => fcall[c].ep = "verify" /\ OffChainChecksPassed(fcall[c]))
    /\ [][\A c \in FCallIds :
            Simulated(c) =>
               LET failures == Reverts(EscrowTx(fcall[c]))
                   answer == fcall'[c].answer
               IN /\ answer.valid => failures = {}
                  /\ failures # {} =>
                        /\ ~answer.valid
                        /\ \E r \in failures \cup {LibRpcError} :
                              answer.reason = "Settlement simulation failed: " \o r]_vars

\* an escrow verify request passed the ten checks and its simulation reverted
\* on the nonce, which the answer names
C33_Witness ==
    \E c \in FCallIds :
        /\ fcall[c].ep = "verify"
        /\ fcall[c].pc = "done"
        /\ fcall[c].did = <<"verifyTypedData", "balanceOf", "staticCall">>
        /\ ~fcall[c].answer.valid
        /\ fcall[c].answer.reason
              = "Settlement simulation failed: authorization is used"

----------------------------------------------------------------------------
\* The steps of the demo-ai helper

\* the demo-ai requests that went into the try block and were answered
DemoRuns ==
    {c \in FCallIds : /\ fcall[c].ep = "demo-ai"
                      /\ fcall[c].pc = "done"
                      /\ fcall[c].did # <<>>}

\* the helper signed, or sent the request with PAYMENT-SIGNATURE
SignedOrPaid(f) == Len(f.did) >= 3

\* C34: demo-ai makes its calls in the order first request, balance read,
\* signature, paid request, the paid request at most once; it neither signs
\* nor sends a paid request when the first response is not a 402, when it has
\* no PAYMENT-REQUIRED header, or when the demo wallet's balance is below
\* requirements.amount
C34_DemoStepsInOrder ==
    \A c \in DemoRuns :
        LET f == fcall[c] IN
        /\ f.did = SubSeq(DemoCalls, 1, Len(f.did))
        /\ Len(f.did) <= 4
        /\ f.firstRes.status # 402 => ~SignedOrPaid(f)
        /\ ~f.firstRes.hasHeader => ~SignedOrPaid(f)
        /\ (Len(f.did) >= 2 /\ f.seenBalance < f.requirements.amount)
              => ~SignedOrPaid(f)
        /\ SignedOrPaid(f) =>
              /\ f.did = DemoCalls
              /\ f.firstRes = [status |-> 402, hasHeader |-> TRUE]
              /\ f.seenBalance >= f.requirements.amount

\* a run stopped at the balance test with 400, and 3 * Price was asked
C34_Witness ==
    \E c \in DemoRuns :
        /\ fcall[c].did = <<"fetch", "balanceOf">>
        /\ fcall[c].answer.status = 400
        /\ fcall[c].seenBalance < fcall[c].requirements.amount

\* a run went through all four steps and relayed the 200 of the paid request
C34_PaidRun ==
    \E c \in DemoRuns : fcall[c].did = DemoCalls /\ fcall[c].answer.status = 200

----------------------------------------------------------------------------
\* Misconfiguration of the paid endpoint

NoTreasuryNoCall ==
    \A g \in GateIds :
        (gate[g].pc = "done" /\ gate[g].message = "Treasury address not configured")
            => (gate[g].calls = <<>> /\ txs[<<g, "settle">>] = NoTx)

----------------------------------------------------------------------------
\* The verdict and the domain fields of the requirements

\* two verify requests that differ at most in requirements.extra.name and
\* requirements.extra.version
DifferInNamesOnly(f, h) ==
    /\ f.ep = h.ep
    /\ f.payload = h.payload
    /\ [f.requirements EXCEPT !.extra.name = "", !.extra.version = ""]
          = [h.requirements EXCEPT !.extra.name = "", !.extra.version = ""]

\* the answer is the handler's own: no RPC call failed on the way
NoRpcFailure(f) ==
    f.answer.reason \notin {LibRpcError, "Settlement simulation failed: " \o LibRpcError}

\* C37: two verify or verify-transfer requests that differ only in
\* requirements.extra.name and requirements.extra.version get the same
\* verdict and the same reason
C37_VerdictIgnoresExtraNames ==
    \A c, d \in FCallIds :
        (/\ fcall[c].pc = "done" /\ fcall[d].pc = "done"
         /\ DifferInNamesOnly(fcall[c], fcall[d])
         /\ NoRpcFailure(fcall[c]) /\ NoRpcFailure(fcall[d]))
        => fcall[c].answer = fcall[d].answer

\* the same payment, signed under the name of the other token, was refused
\* for its signature both under requirements that name the token and under
\* requirements that name the other token
C37_Witness ==
    \E c, d \in FCallIds :
        /\ fcall[c].pc = "done" /\ fcall[d].pc = "done"
        /\ DifferInNamesOnly(fcall[c], fcall[d])
        /\ fcall[c].requirements.extra.name = "USDT0"
        /\ fcall[d].requirements.extra.name = "CNHT0"
        /\ fcall[c].payload.payload.signature.digest[1] = "CNHT0"
        /\ fcall[c].answer.reason = "Invalid signature"
        /\ fcall[d].answer.reason = "Invalid signature"

\* the buyer's payment was found valid under requirements that name the token
\* and under requirements that name nothing
C37_ValidTwice ==
    \E c, d \in FCallIds :
        /\ fcall[c].pc = "done" /\ fcall[d].pc = "done"
        /\ DifferInNamesOnly(fcall[c], fcall[d])
        /\ fcall[c].requirements.extra.name = "USDT0"
        /\ fcall[d].requirements.extra.name = ""
        /\ fcall[c].answer.valid /\ fcall[d].answer.valid

----------------------------------------------------------------------------
\* C40: getSessionToken returns no token when the stored expiry is in the
\* past and then removes both items; and after saveSession(t, e), with no
\* clearSession since, it returns t as long as e is absent or not in the
\* past, whatever sessions were saved before.
C40_SessionTokenFollowsLastSave ==
    storageService.call.op = "getSessionToken" =>
        /\ SessionExpired(storageService.call.expires, storageService.call.at) =>
              /\ storageService.call.returned = ""
              /\ storageService.arena_session_token = ""
              /\ storageService.arena_session_expires = 0
        /\ ( /\ storageService.saved.op = "saveSession"
             /\ ~SessionExpired(storageService.saved.expiresAt, storageService.call.at) )
           => storageService.call.returned = storageService.saved.token

\* the first half alone: an expired stored session is never returned, and
\* both items are removed
ExpiredSessionCleared ==
    ( /\ storageService.call.op = "getSessionToken"
      /\ SessionExpired(storageService.call.expires, storageService.call.at) )
    => /\ storageService.call.returned = ""
       /\ storageService.arena_session_token = ""
       /\ storageService.arena_session_expires = 0

\* a session saved without an expiry is lost to the expiry of an earlier one
C40_EarlierExpiryInvalidates ==
    /\ storageService.call.op = "getSessionToken"
    /\ storageService.saved.op = "saveSession"
    /\ storageService.saved.expiresAt = 0
    /\ storageService.call.at >= storageService.saved.at
    /\ storageService.call.returned = ""
    /\ storageService.arena_session_token = ""

----------------------------------------------------------------------------
\* C38: under any interleaving of initialize(), open(), openNetworks() and
\* getProvider(), _doInitialize runs at most once while a run is pending or
\* has succeeded (every run before the last one was rejected), initPromise
\* is cleared only by a failed run and is otherwise the promise of the last
\* run, and all callers that obtain a modal obtain the same one.
C38_InitializesOnce ==
    LET a == appKitService IN
    /\ \A i, j \in 1..Len(a.runs) : i < j => a.runs[i].state = "rejected"
    /\ IF a.runs = <<>> \/ a.runs[Len(a.runs)].state = "rejected"
       THEN a.initPromise = 0 /\ ~a.isInitialized
       ELSE a.initPromise = Len(a.runs)
    /\ a.isInitialized <=>
          (a.runs # <<>> /\ a.runs[Len(a.runs)].state = "fulfilled")
    /\ \A k \in Callers : a.callers[k].pc = "returned" =>
          /\ a.isInitialized
          /\ a.callers[k].modal = a.modal
          /\ a.callers[k].modal = Len(a.runs)

\* a first initialization failed after it had created a modal, a second one
\* succeeded, and the callers of three different methods obtained the second
\* modal: one that started the second run, one that awaited it, one that
\* called afterwards
C38_Witness ==
    LET a == appKitService IN
    /\ Len(a.runs) = 2
    /\ a.runs[1] = [state |-> "rejected", modal |-> 1]
    /\ a.runs[2].state = "fulfilled"
    /\ \E k \in Callers : a.callers[k].pc = "thrown"
    /\ \E k, l \in Callers :
          /\ k # l
          /\ a.callers[k].pc = "returned" /\ a.callers[l].pc = "returned"
          /\ a.callers[k].method # a.callers[l].method
          /\ a.callers[k].promise = 2 /\ a.callers[l].promise \in {0, 2}
          /\ a.callers[k].modal = 2 /\ a.callers[l].modal = 2

----------------------------------------------------------------------------
\* what holds of one connectWalletConnect call at any time: resolve or
\* reject is called at most once, and by what came first (resolve with the
\* address of the connected event, reject as cancelled on disconnected, as
\* timed out on the timer); before anything came both listeners are on and
\* nothing was written; once something came the listeners are off, cleanup
\* has run once, and the wallet state is written at most once, by the
\* connected event that came first
SettlesOnFirst(c) ==
    /\ Len(c.calls) <= 1
    /\ c.writes <= 1
    /\ (c.pc = "pending" /\ c.first = "") =>
          c.listening /\ c.calls = <<>> /\ c.writes = 0 /\ c.cleanups = 0
    /\ c.first # "" => ~c.listening /\ c.cleanups = 1
    /\ c.writes = 1 => c.first = "connected"
    /\ c.calls # <<>> =>
          c.calls[1] = CASE c.first = "connected" ->
                               [how |-> "resolve", with |-> c.detail]
                         [] c.first = "disconnected" ->
                               [how |-> "reject", with |-> "cancelled"]
                         [] OTHER -> [how |-> "reject", with |-> "timeout"]

====
